---------------------------- MODULE Spec2Model ----------------------------
(***************************************************************************)
(* Crossword synthesis core of rss-crossword: the TypeScript generator     *)
(* (crosswordGenerator.ts: normalizeJapanese, canPlaceWord, findPlacements,*)
(* placeWord, generateCrossword) and the play contract of puzzleService.ts *)
(* (createPuzzle, savePuzzle, getPuzzle, checkAnswers).                    *)
(*                                                                         *)
(* Strings are sequences of UTF-16 code units (integers); every character  *)
(* of the modelled alphabet lies in the BMP, so a code unit is a grapheme. *)
(* Grid rows and columns are 0-based as in the source; sequences are       *)
(* 1-based, so the source's chars[i] is word[i + 1].                       *)
(***************************************************************************)
EXTENDS Integers, Sequences, FiniteSets, TLC

(***************************************************************************)
(* Bounds of the model.                                                    *)
(***************************************************************************)
\* Side of the grid handed to generateCrossword (createPuzzle clamps to 5..15).
GridSize == 5
\* Largest number of candidates in the list handed to generateCrossword.
MaxWords == 3
\* Attempts of the search loop that the model explores (the code runs 100).
AttemptBound == 2
\* Largest number of entries in the answer object of a checkAnswers request.
MaxSubmitted == 2

(***************************************************************************)
(* Program constants.                                                      *)
(***************************************************************************)
maxAttempts == 100
targetDensity == 80
\* grid cells hold a string or null; numberGrid holds 0 for "no number"
Null == 0

\* generateCrossword's parameter size: the side of the grid.
VARIABLE size

(***************************************************************************)
(* Small helpers over sequences.                                           *)
(***************************************************************************)
Range(s) == {s[k] : k \in DOMAIN s}

Min(a, b) == IF a < b THEN a ELSE b

RECURSIVE FlattenFrom(_, _, _)
\* ss[lo] \o ... \o ss[hi], halving the range.
FlattenFrom(ss, lo, hi) ==
  IF lo > hi THEN <<>>
  ELSE IF lo = hi THEN ss[lo]
  ELSE FlattenFrom(ss, lo, (lo + hi) \div 2) \o FlattenFrom(ss, (lo + hi) \div 2 + 1, hi)

\* The concatenation of a sequence of sequences.
Flatten(ss) == FlattenFrom(ss, 1, Len(ss))

\* Every order of the elements of s (a sequence without repetitions).
Orderings(s) ==
  {p \in [1..Len(s) -> Range(s)] : \A a, b \in 1..Len(s) : a # b => p[a] # p[b]}

(***************************************************************************)
(* normalizeJapanese                                                       *)
(***************************************************************************)
\* .map(char => ...): hiragana U+3041..U+3096 to katakana by adding 0x60
hiraganaToKatakana(code) ==
  IF code >= \H3041 /\ code <= \H3096 THEN code + \H60 ELSE code

\* String.prototype.replace(/x/g, y) for single characters x and y
replaceAll(text, from, to) ==
  [k \in DOMAIN text |-> IF text[k] = from THEN to ELSE text[k]]

\* String.prototype.toUpperCase on the modelled alphabet: the Latin small
\* letters map to capitals, kana, the long-vowel mark and digits have no case.
toUpperCaseChar(code) ==
  IF code >= \H61 /\ code <= \H7A THEN code - \H20 ELSE code

toUpperCase(text) == [k \in DOMAIN text |-> toUpperCaseChar(text[k])]

\* The chain of .replace calls, in source order: small katakana to full size.
foldSmallKana(text) ==
  LET t1 == replaceAll(text, \H30A1, \H30A2)
      t2 == replaceAll(t1, \H30A3, \H30A4)
      t3 == replaceAll(t2, \H30A5, \H30A6)
      t4 == replaceAll(t3, \H30A7, \H30A8)
      t5 == replaceAll(t4, \H30A9, \H30AA)
      t6 == replaceAll(t5, \H30C3, \H30C4)
      t7 == replaceAll(t6, \H30E3, \H30E4)
      t8 == replaceAll(t7, \H30E5, \H30E6)
      t9 == replaceAll(t8, \H30E7, \H30E8)
  IN replaceAll(t9, \H30EE, \H30EF)

\* normalizeJapanese with the small-kana folding done before the hiragana are
\* converted, so that a small hiragana ends as a small katakana.
normalizeJapaneseFoldFirst(text) ==
  toUpperCase([k \in DOMAIN text |-> hiraganaToKatakana(foldSmallKana(text)[k])])

normalizeJapanese(text) ==
  toUpperCase(foldSmallKana([k \in DOMAIN text |-> hiraganaToKatakana(text[k])]))

\* The legacy generator's normalizeJapanese: the same two steps, no upper-casing.
normalizeJapaneseLegacy(text) ==
  foldSmallKana([k \in DOMAIN text |-> hiraganaToKatakana(text[k])])

(***************************************************************************)
(* Placement engine                                                        *)
(***************************************************************************)
emptyGrid == [r \in 0..size - 1 |-> [c \in 0..size - 1 |-> Null]]

\* canPlaceLoop without the check of the perpendicular neighbours of an empty
\* cell (lines 103-110 left out).
RECURSIVE canPlaceLoopNoSideCheck(_, _, _, _, _, _)
canPlaceLoopNoSideCheck(grid, word, row, col, horizontal, i) ==
  IF i >= Len(word) THEN TRUE
  ELSE
    LET r == IF horizontal THEN row ELSE row + i
        c == IF horizontal THEN col + i ELSE col
        existing == grid[r][c]
    IN IF existing # Null /\ existing # word[i + 1] THEN FALSE
       ELSE canPlaceLoopNoSideCheck(grid, word, row, col, horizontal, i + 1)

\* The loop of canPlaceWord from index i on: FALSE at the first early return.
RECURSIVE canPlaceLoop(_, _, _, _, _, _)
canPlaceLoop(grid, word, row, col, horizontal, i) ==
  IF i >= Len(word) THEN TRUE
  ELSE
    LET r == IF horizontal THEN row ELSE row + i
        c == IF horizontal THEN col + i ELSE col
        existing == grid[r][c]
    IN IF existing # Null
       THEN IF existing # word[i + 1] THEN FALSE
            ELSE canPlaceLoop(grid, word, row, col, horizontal, i + 1)
       ELSE IF horizontal
            THEN IF r > 0 /\ grid[r - 1][c] # Null THEN FALSE
                 ELSE IF r < size - 1 /\ grid[r + 1][c] # Null THEN FALSE
                 ELSE canPlaceLoop(grid, word, row, col, horizontal, i + 1)
            ELSE IF c > 0 /\ grid[r][c - 1] # Null THEN FALSE
                 ELSE IF c < size - 1 /\ grid[r][c + 1] # Null THEN FALSE
                 ELSE canPlaceLoop(grid, word, row, col, horizontal, i + 1)

\* hasIntersection after the loop has run to its end
hasIntersection(grid, word, row, col, horizontal) ==
  \E i \in 0..Len(word) - 1 :
    grid[IF horizontal THEN row ELSE row + i][IF horizontal THEN col + i ELSE col] # Null

\* canPlaceBounds without the check of the cell after the run (lines 83 and
\* 87 left out).
canPlaceBoundsNoAfter(grid, word, row, col, horizontal) ==
  LET len == Len(word)
  IN IF horizontal
     THEN IF col + len > size THEN FALSE
          ELSE IF col > 0 /\ grid[row][col - 1] # Null THEN FALSE
          ELSE TRUE
     ELSE IF row + len > size THEN FALSE
          ELSE IF row > 0 /\ grid[row - 1][col] # Null THEN FALSE
          ELSE TRUE

\* The bounds block of canPlaceWord: FALSE at the first early return.
canPlaceBounds(grid, word, row, col, horizontal) ==
  LET len == Len(word)
  IN IF horizontal
     THEN IF col + len > size THEN FALSE
          ELSE IF col > 0 /\ grid[row][col - 1] # Null THEN FALSE
          ELSE IF col + len < size /\ grid[row][col + len] # Null THEN FALSE
          ELSE TRUE
     ELSE IF row + len > size THEN FALSE
          ELSE IF row > 0 /\ grid[row - 1][col] # Null THEN FALSE
          ELSE IF row + len < size /\ grid[row + len][col] # Null THEN FALSE
          ELSE TRUE

canPlaceWord(grid, word, row, col, horizontal, requireIntersection) ==
  IF ~canPlaceBounds(grid, word, row, col, horizontal) THEN FALSE
  ELSE IF ~canPlaceLoop(grid, word, row, col, horizontal, 0) THEN FALSE
  ELSE IF requireIntersection /\ ~hasIntersection(grid, word, row, col, horizontal)
       THEN FALSE
  ELSE TRUE

countIntersections(grid, word, row, col, horizontal) ==
  Cardinality({i \in 0..Len(word) - 1 :
    grid[IF horizontal THEN row ELSE row + i][IF horizontal THEN col + i ELSE col] # Null})

\* placeWord that ignores the orientation and always writes along the row.
placeWordAcrossOnly(grid, word, row, col, horizontal) ==
  [r \in 0..size - 1 |-> [c \in 0..size - 1 |->
     IF r = row /\ c >= col /\ c < col + Len(word) THEN word[c - col + 1]
     ELSE grid[r][c]]]

placeWord(grid, word, row, col, horizontal) ==
  [r \in 0..size - 1 |-> [c \in 0..size - 1 |->
     IF horizontal
     THEN IF r = row /\ c >= col /\ c < col + Len(word) THEN word[c - col + 1]
          ELSE grid[r][c]
     ELSE IF c = col /\ r >= row /\ r < row + Len(word) THEN word[r - row + 1]
          ELSE grid[r][c]]]

\* A first scan that tries the horizontal candidate only.
placementsAtAcrossOnly(grid, word, requireIntersection, r, c, i) ==
  IF grid[r][c] # Null /\ word[i + 1] = grid[r][c]
       /\ c - i >= 0 /\ canPlaceWord(grid, word, r, c - i, TRUE, requireIntersection)
  THEN <<[row |-> r, col |-> c - i, horizontal |-> TRUE,
          intersections |-> countIntersections(grid, word, r, c - i, TRUE)]>>
  ELSE <<>>

\* What the innermost loop body of the first scan pushes for cell (r, c) and
\* index i of the word: the horizontal candidate, then the vertical one.
placementsAt(grid, word, requireIntersection, r, c, i) ==
  IF grid[r][c] # Null /\ word[i + 1] = grid[r][c]
  THEN (IF c - i >= 0 /\ canPlaceWord(grid, word, r, c - i, TRUE, requireIntersection)
        THEN <<[row |-> r, col |-> c - i, horizontal |-> TRUE,
                intersections |-> countIntersections(grid, word, r, c - i, TRUE)]>>
        ELSE <<>>)
       \o
       (IF r - i >= 0 /\ canPlaceWord(grid, word, r - i, c, FALSE, requireIntersection)
        THEN <<[row |-> r - i, col |-> c, horizontal |-> FALSE,
                intersections |-> countIntersections(grid, word, r - i, c, FALSE)]>>
        ELSE <<>>)
  ELSE <<>>

\* The first scan: for r, for c, for i, in that order.
intersectingPlacements(grid, word, requireIntersection) ==
  LET L == Len(word)
  IN Flatten([k \in 1..size * size * L |->
       placementsAt(grid, word, requireIntersection,
                    (k - 1) \div (size * L), ((k - 1) \div L) % size, (k - 1) % L)])

\* The second scan: every (r, c), horizontal then vertical, no intersection.
adjacentPlacements(grid, word) ==
  Flatten([k \in 1..size * size |->
    LET r == (k - 1) \div size
        c == (k - 1) % size
    IN (IF canPlaceWord(grid, word, r, c, TRUE, FALSE)
        THEN <<[row |-> r, col |-> c, horizontal |-> TRUE, intersections |-> 0]>>
        ELSE <<>>)
       \o
       (IF canPlaceWord(grid, word, r, c, FALSE, FALSE)
        THEN <<[row |-> r, col |-> c, horizontal |-> FALSE, intersections |-> 0]>>
        ELSE <<>>)])

\* placements.sort((a, b) => b.intersections - a.intersections): stable and
\* descending, so the placements of each count n = size..0 in their own order.
RECURSIVE sortPlacementsFrom(_, _)
sortPlacementsFrom(placements, n) ==
  IF n < 0 THEN <<>>
  ELSE SelectSeq(placements, LAMBDA p : p.intersections = n)
       \o sortPlacementsFrom(placements, n - 1)

\* A sort that puts the placements with the fewest intersections first.
sortPlacementsAscending(placements) ==
  LET sorted == sortPlacementsFrom(placements, size)
  IN [k \in DOMAIN sorted |-> sorted[Len(sorted) + 1 - k]]

sortPlacements(placements) == sortPlacementsFrom(placements, size)

findPlacements(grid, word, requireIntersection) ==
  LET first == intersectingPlacements(grid, word, requireIntersection)
  IN sortPlacements(IF Len(first) = 0 /\ ~requireIntersection
                    THEN adjacentPlacements(grid, word)
                    ELSE first)

\* Letter cells of the grid; the density is 100 * filled / (size * size).
filledCells(grid) ==
  Cardinality({rc \in (0..size - 1) \X (0..size - 1) : grid[rc[1]][rc[2]] # Null})

\* calculateDensity, scaled by the cell count so that it stays an integer:
\* the value is density * total, and density >= t reads value >= t * total.
calculateDensity(grid) == filledCells(grid) * 100

(***************************************************************************)
(* Inputs: the candidate list handed to generateCrossword.                 *)
(***************************************************************************)
\* Raw answers the candidate lists are drawn from (UTF-16 code units):
\*   1 NEKO in katakana     2 neko in hiragana (normalizes to 1)
\*   3 KOTO                 4 TORI
\*   5 NEKOTO (contains 1 and 3 as substrings)
\*   6 A (one grapheme: filtered out)
\*   7 a word of size + 1 graphemes (too long: filtered out)
\*   8 "ab" in Latin small letters (normalizes to "AB", shares no letter)
Vocabulary ==
  << <<\H30CD, \H30B3>>,
     <<\H306D, \H3053>>,
     <<\H30B3, \H30C8>>,
     <<\H30C8, \H30EA>>,
     <<\H30CD, \H30B3, \H30C8>>,
     <<\H30A2>>,
     [k \in 1..size + 1 |-> \H30FC],
     <<\H61, \H62>> >>

\* WordClue: the clue and the article link are opaque; the model uses the
\* vocabulary index for both.
WordClue(k) == [answer |-> Vocabulary[k], clue |-> k, articleLink |-> k]

RECURSIVE AscendingFrom(_, _)
\* The sequences of at most n vocabulary indices, ascending, all >= lo.
AscendingFrom(lo, n) ==
  IF n = 0 THEN {<<>>}
  ELSE {<<>>} \cup
       UNION {{<<k>> \o t : t \in AscendingFrom(k + 1, n - 1)} : k \in lo..Len(Vocabulary)}

\* The candidate lists: at most MaxWords entries of the vocabulary, in order.
InputLists ==
  {[j \in DOMAIN ks |-> WordClue(ks[j])] : ks \in AscendingFrom(1, MaxWords)}

(***************************************************************************)
(* generateCrossword: pre-processing                                       *)
(***************************************************************************)
\* normalizedWords with a filter that lets one-grapheme answers through
\* (len >= 1 in place of len >= 2).
normalizedWordsKeepShort(ws) ==
  SelectSeq([j \in DOMAIN ws |-> [ws[j] EXCEPT !.answer = normalizeJapanese(ws[j].answer)]],
            LAMBDA w : Len(w.answer) >= 1 /\ Len(w.answer) <= size)

\* .map(w => ({...w, answer: normalizeJapanese(w.answer)})).filter(len in 2..size)
normalizedWords(ws) ==
  SelectSeq([j \in DOMAIN ws |-> [ws[j] EXCEPT !.answer = normalizeJapanese(ws[j].answer)]],
            LAMBDA w : Len(w.answer) >= 2 /\ Len(w.answer) <= size)

RECURSIVE removeDuplicatesKeepLast(_, _)
\* A dedupe in which the last occurrence of each answer wins.
removeDuplicatesKeepLast(ws, seen) ==
  IF ws = <<>> THEN <<>>
  ELSE IF \E j \in DOMAIN Tail(ws) : Tail(ws)[j].answer = Head(ws).answer
       THEN removeDuplicatesKeepLast(Tail(ws), seen)
       ELSE <<Head(ws)>> \o removeDuplicatesKeepLast(Tail(ws), seen)

\* .filter with the seen set: the first occurrence of each answer is kept.
RECURSIVE removeDuplicates(_, _)
removeDuplicates(ws, seen) ==
  IF ws = <<>> THEN <<>>
  ELSE IF Head(ws).answer \in seen THEN removeDuplicates(Tail(ws), seen)
  ELSE <<Head(ws)>> \o removeDuplicates(Tail(ws), seen \cup {Head(ws).answer})

\* The comparator scoreA - scoreB || lenA - lenB orders by (score, len); with
\* len <= size the pair is the single key score * (size + 1) + len.
sortKey(w) ==
  (IF Len(w.answer) >= 3 /\ Len(w.answer) <= 5 THEN 0 ELSE 1) * (size + 1) + Len(w.answer)

RECURSIVE sortWordsFrom(_, _)
\* uniqueWords.sort(...): stable, ascending in sortKey.
sortWordsFrom(ws, key) ==
  IF key > 2 * (size + 1) THEN <<>>
  ELSE SelectSeq(ws, LAMBDA w : sortKey(w) = key) \o sortWordsFrom(ws, key + 1)

prepareWords(ws) == sortWordsFrom(removeDuplicates(normalizedWords(ws), {}), 0)

minWords == IF size <= 7 THEN 6 ELSE IF size <= 10 THEN 18 ELSE IF size <= 12 THEN 25 ELSE 35

(***************************************************************************)
(* generateCrossword: numbering and the final result                       *)
(***************************************************************************)
\* An across-start test that does not look at the right neighbour.
isHorizontalStartNoRight(grid, r, c) == c = 0 \/ grid[r][c - 1] = Null

isHorizontalStart(grid, r, c) ==
  (c = 0 \/ grid[r][c - 1] = Null) /\ (c < size - 1 /\ grid[r][c + 1] # Null)

isVerticalStart(grid, r, c) ==
  (r = 0 \/ grid[r - 1][c] = Null) /\ (r < size - 1 /\ grid[r + 1][c] # Null)

RECURSIVE numberScanPerRun(_, _, _, _)
\* numberScan that counts an across start and a down start of the same cell
\* separately: the counter advances once per run instead of once per cell.
numberScanPerRun(grid, k, positionNumber, numberGrid) ==
  IF k >= size * size THEN numberGrid
  ELSE
    LET r == k \div size
        c == k % size
        starts == (IF isHorizontalStart(grid, r, c) THEN 1 ELSE 0)
                  + (IF isVerticalStart(grid, r, c) THEN 1 ELSE 0)
    IN IF grid[r][c] # Null /\ starts > 0
       THEN numberScanPerRun(grid, k + 1, positionNumber + starts,
                             [numberGrid EXCEPT ![r][c] = positionNumber])
       ELSE numberScanPerRun(grid, k + 1, positionNumber, numberGrid)

RECURSIVE numberScan(_, _, _, _)
\* The numbering loops from cell k (row-major) on, with the counter and the
\* numbers assigned so far; the result is the finished numberGrid.
numberScan(grid, k, positionNumber, numberGrid) ==
  IF k >= size * size THEN numberGrid
  ELSE
    LET r == k \div size
        c == k % size
    IN IF grid[r][c] # Null
          /\ (isHorizontalStart(grid, r, c) \/ isVerticalStart(grid, r, c))
       THEN numberScan(grid, k + 1, positionNumber + 1,
                       [numberGrid EXCEPT ![r][c] = positionNumber])
       ELSE numberScan(grid, k + 1, positionNumber, numberGrid)

assignNumbers(grid) ==
  numberScan(grid, 0, 1, [r \in 0..size - 1 |-> [c \in 0..size - 1 |-> 0]])

\* number: numberGrid[r][c] || null
finalGrid(grid, numberGrid) ==
  [r \in 0..size - 1 |-> [c \in 0..size - 1 |->
     [letter |-> grid[r][c],
      number |-> IF numberGrid[r][c] # 0 THEN numberGrid[r][c] ELSE Null,
      isBlack |-> grid[r][c] = Null]]]

finalWords(placedWords, numberGrid) ==
  [j \in DOMAIN placedWords |->
     LET p == placedWords[j]
     IN [answer |-> p.word.answer,
         clue |-> p.word.clue,
         articleLink |-> p.word.articleLink,
         startRow |-> p.row,
         startCol |-> p.col,
         position |-> numberGrid[p.row][p.col],
         orientation |-> IF p.horizontal THEN "across" ELSE "down",
         length |-> Len(p.word.answer)]]

(***************************************************************************)
(* State                                                                   *)
(***************************************************************************)
VARIABLES
  seed,         \* the random generator: <<>> (ambient), else one draw per attempt
  previous,     \* <<>>, else <<{words, result}>>: the arguments of a repeated call
                \* and what the earlier call returned (<<>> while there is none)
  words,        \* the candidate list handed to generateCrossword
  pc,           \* where createPuzzle / generateCrossword stands
  uniqueWords,  \* generateCrossword: the prepared candidates
  attempt,      \* generateCrossword: the attempt loop's counter
  bestResult,   \* generateCrossword: <<>> for null, else <<{grid, placed, density}>>
  shuffled,     \* attempt: this attempt's order
  grid,         \* attempt: the grid being filled
  placed,       \* attempt: {word, row, col, horizontal} in placement order
  idx,          \* attempt: index of the main loop or of the edge-fill loop
  shortWords,   \* attempt: the edge-fill pass's candidates
  result,       \* <<>> or <<CrosswordResult>>: what generateCrossword returned
  store,        \* the puzzles table: puzzle id -> row
  request,      \* the last call of the play interface: its operation and arguments
  response,     \* what that call returned or threw
  active,       \* createLimit: the number of tasks holding a slot
  queue,        \* createLimit: the submitted tasks not yet started, oldest first
  tasks,        \* createLimit: each task's state, outcome and returned promise
  started,      \* createLimit: the tasks in the order their fn was called
  schedulerInterval, \* scheduler: TRUE while the interval timer is set
  isRunning,    \* scheduler: the module's flag
  cycles,       \* scheduler: the runCycle bodies in progress, invocation -> position
  invocations,  \* scheduler: how many times runCycle has been invoked
  lastCall,     \* scheduler: who invoked runCycle last and what the call did
  lastEnd       \* scheduler: how the last cycle that ended ended

\* The state of the background services: the limiter and the scheduler.
services == <<active, queue, tasks, started, schedulerInterval, isRunning, cycles,
              invocations, lastCall, lastEnd>>

vars == <<size, seed, previous, words, pc, uniqueWords, attempt, bestResult, shuffled, grid, placed,
          idx, shortWords, result, store, request, response, services>>

\* Largest number of tasks handed to the limiter.
MaxTasks == 4
\* Largest number of invocations of runCycle.
MaxCycles == 3

\* const limit = createLimit(2)
concurrency == 2

\* The module state of claudeService and scheduler after loading: no task
\* submitted, the timer not set, no cycle in progress.
ServicesInit ==
  /\ active = 0
  /\ queue = <<>>
  /\ tasks = [id \in 1..MaxTasks |-> [state |-> "new", outcome |-> "none", promise |-> "pending"]]
  /\ started = <<>>
  /\ schedulerInterval = FALSE
  /\ isRunning = FALSE
  /\ cycles = <<>>
  /\ invocations = 0
  /\ lastCall = [by |-> "none", did |-> "none"]
  /\ lastEnd = "none"

\* uuidv4(): the id of the one puzzle the model creates
NewPuzzleId == "p1"

Init ==
  /\ size = GridSize
  /\ seed = <<>>
  /\ previous = <<>>
  /\ words \in InputLists
  /\ pc = "prepare"
  /\ uniqueWords = <<>>
  /\ attempt = 0
  /\ bestResult = <<>>
  /\ shuffled = <<>>
  /\ grid = emptyGrid
  /\ placed = <<>>
  /\ idx = 0
  /\ shortWords = <<>>
  /\ result = <<>>
  /\ store = <<>>
  /\ request = [op |-> "none"]
  /\ response = [op |-> "none"]
  /\ ServicesInit

(***************************************************************************)
(* generateCrossword, step by step                                         *)
(***************************************************************************)
\* Lines 239-274: normalize, filter, dedupe, sort; no best result yet.
Prepare ==
  /\ pc = "prepare"
  /\ uniqueWords' = prepareWords(words)
  /\ attempt' = 0
  /\ bestResult' = <<>>
  /\ pc' = "attempt"
  /\ UNCHANGED <<size, seed, previous, services>>
  /\ UNCHANGED <<words, shuffled, grid, placed, idx, shortWords, result, store, request, response>>

\* A seed row a third of the way down (size / 3 in place of Math.floor(size / 2)).
seedRowTop == size \div 3

\* The grid and the placed list after the seed step (lines 283-294).
seedRow == size \div 2

\* A seed column that leaves no room for the word (size - L + 1).
seedColPastEdge(word) == size - Len(word.answer) + 1

seedCol(word) == (size - Len(word.answer)) \div 2

seedFits(order) ==
  Len(order) > 0
  /\ canPlaceWord(emptyGrid, order[1].answer, seedRow, seedCol(order[1]), TRUE, FALSE)

\* A shuffle that ignores the generator's draws.
shufflesAmbient == Orderings(uniqueWords)

\* Line 281: the orders the shuffle can produce.  With the ambient generator
\* (seed = <<>>) any order; with a generator whose draws are fixed at entry,
\* the order the draw of this attempt selects.
shuffles ==
  IF seed = <<>> THEN Orderings(uniqueWords)
  ELSE {[i \in DOMAIN uniqueWords |-> uniqueWords[seed[attempt + 1][i]]]}

\* Lines 276-294: a fresh grid, the shuffle (Math.random), the seed word.
\* The parameter words is not read after line 239 and is dropped from the
\* state here.
BeginAttempt ==
  /\ pc = "attempt"
  /\ attempt < Min(maxAttempts, AttemptBound)
  /\ \E order \in shuffles :
       /\ shuffled' = order
       /\ grid' = IF seedFits(order)
                  THEN placeWord(emptyGrid, order[1].answer, seedRow, seedCol(order[1]), TRUE)
                  ELSE emptyGrid
       /\ placed' = IF seedFits(order)
                    THEN <<[word |-> order[1], row |-> seedRow, col |-> seedCol(order[1]),
                            horizontal |-> TRUE]>>
                    ELSE <<>>
  /\ idx' = 1
  /\ words' = <<>>
  /\ pc' = "main"
  /\ UNCHANGED <<size, seed, previous, services>>
  /\ UNCHANGED <<uniqueWords, attempt, bestResult, shortWords, result, store, request,
                 response>>

\* Lines 297-306: one iteration of the main pass.
MainStep ==
  /\ pc = "main"
  /\ idx < Len(shuffled)
  /\ \E word \in {shuffled[idx + 1]} :
     \E placements \in {findPlacements(grid, word.answer, TRUE)} :
       IF Len(placements) > 0
       THEN \E best \in {placements[1]} :
              /\ grid' = placeWord(grid, word.answer, best.row, best.col, best.horizontal)
              /\ placed' = Append(placed, [word |-> word, row |-> best.row, col |-> best.col,
                                           horizontal |-> best.horizontal])
       ELSE UNCHANGED <<grid, placed>>
  /\ idx' = idx + 1
  /\ UNCHANGED <<size, seed, previous, services>>
  /\ UNCHANGED <<words, pc, uniqueWords, attempt, bestResult, shuffled, shortWords,
                 result, store, request, response>>

\* Lines 309-311: the main loop is over; the edge-fill candidates are chosen.
BeginEdgeFill ==
  /\ pc = "main"
  /\ idx >= Len(shuffled)
  /\ shortWords' =
       SelectSeq(SelectSeq(shuffled,
                           LAMBDA w : ~(\E j \in DOMAIN placed : placed[j].word.answer = w.answer)),
                 LAMBDA w : Len(w.answer) <= 3)
  /\ idx' = 0
  /\ pc' = "edge"
  /\ UNCHANGED <<size, seed, previous, services>>
  /\ UNCHANGED <<words, uniqueWords, attempt, bestResult, shuffled, grid, placed,
                 result, store, request, response>>

\* An edge filter that lets every placement through.
touchesEdgeAlways(p, word) == p.row >= 0

\* The filter of lines 315-320: placements that touch an edge of the grid.
touchesEdge(p, word) ==
  \/ p.row = 0 \/ p.row = size - 1
  \/ p.col = 0 \/ p.col = size - 1
  \/ (p.horizontal /\ p.col + Len(word) = size)
  \/ (~p.horizontal /\ p.row + Len(word) = size)

\* Lines 313-327: one iteration of the edge-fill pass.
EdgeStep ==
  /\ pc = "edge"
  /\ idx < Len(shortWords)
  /\ \E word \in {shortWords[idx + 1]} :
     \E edgePlacements \in {SelectSeq(findPlacements(grid, word.answer, FALSE),
                                      LAMBDA p : touchesEdge(p, word.answer))} :
       IF Len(edgePlacements) > 0
       THEN \E best \in {edgePlacements[1]} :
              /\ grid' = placeWord(grid, word.answer, best.row, best.col, best.horizontal)
              /\ placed' = Append(placed, [word |-> word, row |-> best.row, col |-> best.col,
                                           horizontal |-> best.horizontal])
       ELSE UNCHANGED <<grid, placed>>
  /\ idx' = idx + 1
  /\ UNCHANGED <<size, seed, previous, services>>
  /\ UNCHANGED <<words, pc, uniqueWords, attempt, bestResult, shuffled, shortWords,
                 result, store, request, response>>

\* Line 331: does this attempt replace the best result?
replacesBest(best, density, placedWords) ==
  \/ best = <<>>
  \/ density > best[1].density
  \/ Len(placedWords) > Len(best[1].placed)

\* An early exit that asks for one placed word and no density.
goodEnoughOneWord(density, placedWords) == Len(placedWords) >= 1

\* Line 336: density >= targetDensity && placed.length >= minWords
goodEnough(density, placedWords) ==
  density >= targetDensity * size * size /\ Len(placedWords) >= minWords

\* Lines 329-339: the attempt ends; the best is kept; early exit or next attempt.
EndAttempt ==
  /\ pc = "edge"
  /\ idx >= Len(shortWords)
  /\ \E density \in {calculateDensity(grid)} :
        /\ bestResult' = IF replacesBest(bestResult, density, placed)
                         THEN <<[grid |-> grid, placed |-> placed, density |-> density]>>
                         ELSE bestResult
        /\ IF goodEnough(density, placed)
           THEN pc' = "exit" /\ attempt' = attempt
           ELSE pc' = "attempt" /\ attempt' = attempt + 1
  /\ shuffled' = <<>>
  /\ grid' = emptyGrid
  /\ placed' = <<>>
  /\ idx' = 0
  /\ shortWords' = <<>>
  /\ UNCHANGED <<size, seed, previous, services>>
  /\ UNCHANGED <<words, uniqueWords, result, store, request, response>>

\* Lines 341-393: after the loop, fail or number the best grid and return.
Finish ==
  /\ \/ pc = "exit"
     \/ pc = "attempt" /\ attempt >= Min(maxAttempts, AttemptBound)
  /\ IF bestResult = <<>> \/ Len(bestResult[1].placed) = 0
     THEN /\ pc' = "failed"
          /\ result' = <<>>
     ELSE \E numberGrid \in {assignNumbers(bestResult[1].grid)} :
             /\ pc' = "generated"
             /\ result' = <<[width |-> size,
                             height |-> size,
                             grid |-> finalGrid(bestResult[1].grid, numberGrid),
                             words |-> finalWords(bestResult[1].placed, numberGrid),
                             density |-> bestResult[1].density]>>
  /\ bestResult' = <<>>
  /\ uniqueWords' = <<>>
  /\ attempt' = 0
  /\ UNCHANGED <<size, seed, previous, services>>
  /\ UNCHANGED <<words, shuffled, grid, placed, idx, shortWords, store, request,
                 response>>

(***************************************************************************)
(* puzzleService: createPuzzle's record, savePuzzle, getPuzzle             *)
(***************************************************************************)
\* A JavaScript object with string keys is the sequence of its own entries
\* [key, value] in insertion order.  obj[key] = value:
objectSet(obj, key, value) ==
  IF \E j \in DOMAIN obj : obj[j].key = key
  THEN [j \in DOMAIN obj |-> IF obj[j].key = key THEN [key |-> key, value |-> value]
                             ELSE obj[j]]
  ELSE Append(obj, [key |-> key, value |-> value])

ownKeys(obj) == {obj[j].key : j \in DOMAIN obj}

\* `${w.position}-${w.orientation}`
answerKey(position, orientation) == ToString(position) \o "-" \o orientation

RECURSIVE answersReduce(_, _)
\* puzzle.words.reduce((acc, w) => { acc[key(w)] = w.answer; return acc }, acc)
answersReduce(ws, acc) ==
  IF ws = <<>> THEN acc
  ELSE answersReduce(Tail(ws),
                     objectSet(acc, answerKey(Head(ws).position, Head(ws).orientation),
                               Head(ws).answer))

clueOf(w) ==
  [number |-> w.position, clue |-> w.clue, length |-> w.length,
   row |-> w.startRow, col |-> w.startCol, articleLink |-> w.articleLink]

cluesOf(ws, orientation) ==
  LET kept == SelectSeq(ws, LAMBDA w : w.orientation = orientation)
  IN [j \in DOMAIN kept |-> clueOf(kept[j])]

\* Lines 104-140: the Puzzle object built from generateCrossword's result.
\* createdAt and the title are clock readings and are left out.
puzzleRecord(id, puzzle) ==
  [id |-> id,
   size |-> size,
   width |-> puzzle.width,
   height |-> puzzle.height,
   grid |-> puzzle.grid,
   words |-> puzzle.words,
   clues |-> [across |-> cluesOf(puzzle.words, "across"),
              down |-> cluesOf(puzzle.words, "down")],
   density |-> puzzle.density,
   _answers |-> answersReduce(puzzle.words, <<>>)]

\* savePuzzle: the row INSERTed into puzzles.  JSON.stringify keeps the entries
\* of grid, words, clues and _answers (strings, numbers, booleans and null
\* only) in order, so each *_json column holds the value itself.
puzzleRow(puzzle) ==
  [id |-> puzzle.id,
   size |-> puzzle.size,
   width |-> puzzle.width,
   height |-> puzzle.height,
   grid_json |-> puzzle.grid,
   words_json |-> puzzle.words,
   clues_json |-> puzzle.clues,
   answers_json |-> puzzle._answers,
   word_count |-> Len(puzzle.words)]

\* A response that returns the record as it is (no destructuring).
clientPuzzleWhole(puzzle) == puzzle

\* const { _answers, ...clientPuzzle } = puzzle
clientPuzzle(puzzle) == [f \in (DOMAIN puzzle) \ {"_answers"} |-> puzzle[f]]

\* getPuzzle: <<>> for null, else <<Puzzle>>; the density is not stored.  A
\* row whose answers_json parses to null is a row without that field here,
\* and gives a puzzle without the field _answers.
getPuzzle(db, id) ==
  IF id \notin DOMAIN db THEN <<>>
  ELSE LET row == db[id]
           puzzle == [id |-> row.id,
                      size |-> row.size,
                      width |-> row.width,
                      height |-> row.height,
                      grid |-> row.grid_json,
                      words |-> row.words_json,
                      clues |-> row.clues_json,
                      density |-> 0]
       IN IF "answers_json" \in DOMAIN row
          THEN <<puzzle @@ [_answers |-> row.answers_json]>>
          ELSE <<puzzle>>

\* !puzzle || !puzzle._answers, for what getPuzzle returns
puzzleMissing(puzzle) == puzzle = <<>> \/ "_answers" \notin DOMAIN puzzle[1]

\* Lines 103-148 with savePuzzle (154-173): build the record, insert its row,
\* return the record without _answers.
SavePuzzle ==
  /\ pc = "generated"
  /\ \E puzzle \in {puzzleRecord(NewPuzzleId, result[1])} :
       /\ store' = (NewPuzzleId :> puzzleRow(puzzle)) @@ store
       /\ request' = [op |-> "createPuzzle"]
       /\ response' = [op |-> "createPuzzle", error |-> "", value |-> clientPuzzle(puzzle)]
  /\ result' = <<>>
  /\ pc' = "idle"
  /\ UNCHANGED <<size, seed, previous, services>>
  /\ UNCHANGED <<words, uniqueWords, attempt, bestResult, shuffled, grid, placed,
                 idx, shortWords>>

(***************************************************************************)
(* puzzleService: checkAnswers                                             *)
(***************************************************************************)
\* Property names every object inherits from Object.prototype.
ObjectPrototypeKeys ==
  {"constructor", "toString", "valueOf", "hasOwnProperty", "isPrototypeOf",
   "propertyIsEnumerable", "toLocaleString", "__proto__"}

\* obj[key] on an object made by JSON.parse: the own property, else the one
\* inherited from Object.prototype (a function or object), else undefined.
propertyGet(obj, key) ==
  IF key \in ownKeys(obj)
  THEN [type |-> "string", value |-> (CHOOSE e \in Range(obj) : e.key = key).value]
  ELSE IF key \in ObjectPrototypeKeys THEN [type |-> "object", value |-> <<>>]
  ELSE [type |-> "undefined", value |-> <<>>]

\* !v for the values propertyGet returns
isFalsy(v) == v.type = "undefined" \/ (v.type = "string" /\ v.value = <<>>)

\* A comparison that accepts a submission the stored answer starts with
\* (startsWith in place of ===).
strictEqualsPrefix(text, v) ==
  v.type = "string" /\ Len(text) <= Len(v.value) /\ SubSeq(v.value, 1, Len(text)) = text

\* a === b for a string a and a value b read from the table
strictEquals(text, v) == v.type = "string" /\ v.value = text

RECURSIVE classifyInverted(_, _, _, _)
\* classify with the comparison inverted (!== in place of ===).
classifyInverted(table, entries, correct, incorrect) ==
  IF entries = <<>> THEN [correct |-> correct, incorrect |-> incorrect]
  ELSE LET key == Head(entries).key
           correctAnswer == propertyGet(table, key)
       IN IF isFalsy(correctAnswer)
          THEN classifyInverted(table, Tail(entries), correct, incorrect)
          ELSE IF ~strictEquals(normalizeJapanese(Head(entries).value), correctAnswer)
          THEN classifyInverted(table, Tail(entries), Append(correct, key), incorrect)
          ELSE classifyInverted(table, Tail(entries), correct, Append(incorrect, key))

RECURSIVE classify(_, _, _, _)
\* The loop of lines 215-226 over Object.entries(answers).
classify(table, entries, correct, incorrect) ==
  IF entries = <<>> THEN [correct |-> correct, incorrect |-> incorrect]
  ELSE LET key == Head(entries).key
           correctAnswer == propertyGet(table, key)
       IN IF isFalsy(correctAnswer)
          THEN classify(table, Tail(entries), correct, incorrect)
          ELSE IF strictEquals(normalizeJapanese(Head(entries).value), correctAnswer)
          THEN classify(table, Tail(entries), Append(correct, key), incorrect)
          ELSE classify(table, Tail(entries), correct, Append(incorrect, key))

\* checkAnswers(puzzleId, answers): what it returns, or the error it throws.
checkAnswers(db, puzzleId, answers) ==
  LET puzzle == getPuzzle(db, puzzleId)
  IN IF puzzleMissing(puzzle)
     THEN [op |-> "checkAnswers", error |-> "Puzzle not found"]
     ELSE LET lists == classify(puzzle[1]._answers, answers, <<>>, <<>>)
          IN [op |-> "checkAnswers", error |-> "",
              correct |-> lists.correct, incorrect |-> lists.incorrect]

\* Ids a request may name: the stored puzzle's and one that was never stored.
RequestIds == {NewPuzzleId, "p0"}

\* Keys a request may submit: keys of stored tables, a key no table holds,
\* and a property name inherited from Object.prototype.
SubmittedKeys == <<"1-across", "2-down", "9-down", "constructor">>

\* Strings a request may submit: NEKO, neko (hiragana), NETO, "ab".
UserStrings ==
  { <<\H30CD, \H30B3>>, <<\H306D, \H3053>>, <<\H30CD, \H30C8>>, <<\H61, \H62>> }

RECURSIVE entriesFrom(_, _)
\* The answer objects with at most n entries whose keys are taken, in order,
\* from SubmittedKeys[lo..].
entriesFrom(lo, n) ==
  IF n = 0 THEN {<<>>}
  ELSE {<<>>} \cup
       UNION {{<<[key |-> SubmittedKeys[k], value |-> v]>> \o t :
                 v \in UserStrings, t \in entriesFrom(k + 1, n - 1)} :
              k \in lo..Len(SubmittedKeys)}

\* The answer objects a request may carry: the small ones, and for a stored
\* puzzle the sheet that repeats its answer table.
Submissions(db) ==
  entriesFrom(1, MaxSubmitted) \cup {db[id].answers_json : id \in DOMAIN db}

\* POST /check up to the call of checkAnswers (routes, lines 76-87).
CheckAnswers ==
  /\ pc = "idle"
  /\ \E puzzleId \in RequestIds, answers \in Submissions(store) :
       /\ request' = [op |-> "checkAnswers", puzzleId |-> puzzleId, answers |-> answers]
       /\ response' = checkAnswers(store, puzzleId, answers)
  /\ pc' = "responding"
  /\ UNCHANGED <<size, seed, previous, services>>
  /\ UNCHANGED <<words, uniqueWords, attempt, bestResult, shuffled, grid, placed,
                 idx, shortWords, result, store>>

\* res.json(...) or res.status(500).json(...): the handler has answered and
\* the server waits for the next request.
Respond ==
  /\ pc = "responding"
  /\ request' = [op |-> "none"]
  /\ response' = [op |-> "none"]
  /\ pc' = "idle"
  /\ UNCHANGED <<size, seed, previous, services>>
  /\ UNCHANGED <<words, uniqueWords, attempt, bestResult, shuffled, grid, placed,
                 idx, shortWords, result, store>>

(***************************************************************************)
(* puzzleService: getHint; the routes GET /:id and DELETE /:id             *)
(***************************************************************************)
\* The full-width underscore of line 253.
FullWidthUnderscore == \HFF3F

\* A hint that repeats the underscore once per grapheme of the answer
\* (repeat(chars.length) in place of repeat(chars.length - 1)).
hintOfRepeatAll(answer) ==
  <<answer[1]>> \o [k \in 1..Len(answer) |-> FullWidthUnderscore]

\* chars[0] + FullWidthUnderscore.repeat(chars.length - 1)
hintOf(answer) ==
  <<answer[1]>> \o [k \in 1..Len(answer) - 1 |-> FullWidthUnderscore]

\* hintFrom without the guard of line 248: a missing clue gets an empty hint.
hintFromUnguarded(table, clueNumber, direction) ==
  LET answer == propertyGet(table, answerKey(clueNumber, direction))
  IN IF answer.type # "string"
     THEN [op |-> "getHint", error |-> "", hint |-> <<>>, revealed |-> 1, total |-> 0]
     ELSE [op |-> "getHint", error |-> "", hint |-> hintOf(answer.value),
           revealed |-> 1, total |-> Len(answer.value)]

\* Lines 245-259 (and the legacy lines 512-527): the hint for a clue of the
\* answer table, or the error thrown.
hintFrom(table, clueNumber, direction) ==
  LET answer == propertyGet(table, answerKey(clueNumber, direction))
  IN IF isFalsy(answer)
     THEN [op |-> "getHint", error |-> "Clue not found"]
     ELSE IF answer.type # "string"
     THEN [op |-> "getHint", error |-> "answer is not iterable"]
     ELSE [op |-> "getHint", error |-> "", hint |-> hintOf(answer.value),
           revealed |-> 1, total |-> Len(answer.value)]

\* getHint(puzzleId, clueNumber, direction) of puzzleService.ts
getHint(db, puzzleId, clueNumber, direction) ==
  LET puzzle == getPuzzle(db, puzzleId)
  IN IF puzzleMissing(puzzle)
     THEN [op |-> "getHint", error |-> "Puzzle not found"]
     ELSE hintFrom(puzzle[1]._answers, clueNumber, direction)

\* getHint of the legacy articleService.js: the cache holds the record that
\* createPuzzle built, whose _answers the row repeats; only !puzzle is tested.
getHintLegacy(db, puzzleId, clueNumber, direction) ==
  IF puzzleId \notin DOMAIN db
  THEN [op |-> "getHint", error |-> "Puzzle not found"]
  ELSE hintFrom(db[puzzleId].answers_json, clueNumber, direction)

\* Clue numbers and directions a hint request may name.
ClueNumbers == {0, 1, 2, 9}

Directions == {"across", "down", "up"}

HintImplementations == {"puzzleService.ts", "legacy"}

\* POST /hint up to the call of getHint (routes, lines 102-113).
GetHint ==
  /\ pc = "idle"
  /\ \E impl \in HintImplementations, puzzleId \in RequestIds,
        clueNumber \in ClueNumbers, direction \in Directions :
       /\ request' = [op |-> "getHint", impl |-> impl, puzzleId |-> puzzleId,
                      clueNumber |-> clueNumber, direction |-> direction]
       /\ response' = IF impl = "legacy"
                      THEN getHintLegacy(store, puzzleId, clueNumber, direction)
                      ELSE getHint(store, puzzleId, clueNumber, direction)
  /\ pc' = "responding"
  /\ UNCHANGED <<size, seed, previous, services>>
  /\ UNCHANGED <<words, uniqueWords, attempt, bestResult, shuffled, grid, placed,
                 idx, shortWords, result, store>>

\* GET /:id (routes, lines 49-66): 404 for null, else the puzzle without _answers.
GetPuzzle ==
  /\ pc = "idle"
  /\ \E puzzleId \in RequestIds :
       /\ request' = [op |-> "getPuzzle", puzzleId |-> puzzleId]
       /\ response' = IF getPuzzle(store, puzzleId) = <<>>
                      THEN [op |-> "getPuzzle", error |-> "Puzzle not found"]
                      ELSE [op |-> "getPuzzle", error |-> "",
                            value |-> clientPuzzle(getPuzzle(store, puzzleId)[1])]
  /\ pc' = "responding"
  /\ UNCHANGED <<size, seed, previous, services>>
  /\ UNCHANGED <<words, uniqueWords, attempt, bestResult, shuffled, grid, placed,
                 idx, shortWords, result, store>>

\* A DELETE statement that removes no row.
deleteFromNothing(db, id) == db

\* DELETE FROM puzzles WHERE id = ?
deleteFrom(db, id) == [j \in (DOMAIN db) \ {id} |-> db[j]]

\* DELETE /:id (routes, lines 128-140): DELETE FROM puzzles WHERE id = ?;
\* 404 when no row changed.
DeletePuzzle ==
  /\ pc = "idle"
  /\ \E puzzleId \in RequestIds :
       /\ request' = [op |-> "deletePuzzle", puzzleId |-> puzzleId]
       /\ store' = deleteFrom(store, puzzleId)
       /\ response' = IF puzzleId \in DOMAIN store
                      THEN [op |-> "deletePuzzle", error |-> ""]
                      ELSE [op |-> "deletePuzzle", error |-> "Puzzle not found"]
  /\ pc' = "responding"
  /\ UNCHANGED <<size, seed, previous, services>>
  /\ UNCHANGED <<words, uniqueWords, attempt, bestResult, shuffled, grid, placed,
                 idx, shortWords, result>>

\* generateCrossword threw (line 342): createPuzzle has no handler, so line 94
\* propagates the error, savePuzzle is not reached, and POST /generate
\* answers 500 with the message (routes, lines 22-27).
FailPuzzle ==
  /\ pc = "failed"
  /\ request' = [op |-> "createPuzzle"]
  /\ response' = [op |-> "createPuzzle", error |-> "Failed to generate crossword"]
  /\ pc' = "idle"
  /\ UNCHANGED <<size, seed, previous, services>>
  /\ UNCHANGED <<words, uniqueWords, attempt, bestResult, shuffled, grid, placed,
                 idx, shortWords, result, store>>

Next ==
  \/ Prepare
  \/ BeginAttempt
  \/ MainStep
  \/ BeginEdgeFill
  \/ EdgeStep
  \/ EndAttempt
  \/ Finish
  \/ SavePuzzle
  \/ FailPuzzle
  \/ CheckAnswers
  \/ GetHint
  \/ GetPuzzle
  \/ DeletePuzzle
  \/ Respond

Spec == Init /\ [][Next]_vars

(***************************************************************************)
(* generateCrossword called twice with the same arguments and a generator  *)
(* whose draws are fixed at entry                                          *)
(***************************************************************************)
\* Scenario S1: the grid side, and the candidates NEKO, KOTO, TORI.
S1Size == 7

S1Words == <<WordClue(1), WordClue(3), WordClue(4)>>

\* Candidate lists of the seeded calls: S1's, and three with NEKOTO.
SeededInputs ==
  {S1Words,
   <<WordClue(1), WordClue(3), WordClue(5)>>,
   <<WordClue(1), WordClue(4), WordClue(5)>>,
   <<WordClue(3), WordClue(4), WordClue(5)>>}

\* One draw of the generator: the permutation it makes the shuffle apply.
Draws == Permutations(1..3)

InitSeeded ==
  /\ size = S1Size
  /\ seed \in [1..AttemptBound -> Draws]
  /\ words \in SeededInputs
  /\ previous = <<[words |-> words, result |-> <<>>]>>
  /\ pc = "prepare"
  /\ uniqueWords = <<>>
  /\ attempt = 0
  /\ bestResult = <<>>
  /\ shuffled = <<>>
  /\ grid = emptyGrid
  /\ placed = <<>>
  /\ idx = 0
  /\ shortWords = <<>>
  /\ result = <<>>
  /\ store = <<>>
  /\ request = [op |-> "none"]
  /\ response = [op |-> "none"]
  /\ ServicesInit

\* generateCrossword has returned; it is called again with the same words,
\* the same size and a generator in the same state.
Regenerate ==
  /\ pc = "generated"
  /\ previous # <<>>
  /\ previous[1].result = <<>>
  /\ previous' = <<[words |-> previous[1].words, result |-> result]>>
  /\ words' = previous[1].words
  /\ result' = <<>>
  /\ pc' = "prepare"
  /\ UNCHANGED <<size, seed, uniqueWords, attempt, bestResult, shuffled, grid, placed,
                 idx, shortWords, store, request, response>>
  /\ UNCHANGED services

NextSeeded ==
  \/ Prepare
  \/ BeginAttempt
  \/ MainStep
  \/ BeginEdgeFill
  \/ EdgeStep
  \/ EndAttempt
  \/ Finish
  \/ Regenerate

SpecSeeded == InitSeeded /\ [][NextSeeded]_vars

(***************************************************************************)
(* generateCrossword on two further calls: one whose candidates can fill   *)
(* the grid densely enough for the early exit, one whose attempts differ   *)
(* in density and in the number of words placed.                           *)
(***************************************************************************)
\* Six five-letter answers over A..U, no letter used twice except where two
\* answers cross: FGHIJ along row 2, ABCDE and KLMNO along rows 0 and 4,
\* APFQK, CRHSM and ETJUO down columns 0, 2 and 4.
DenseWords ==
  <<[answer |-> <<\H46, \H47, \H48, \H49, \H4A>>, clue |-> 11, articleLink |-> 11],
    [answer |-> <<\H41, \H50, \H46, \H51, \H4B>>, clue |-> 12, articleLink |-> 12],
    [answer |-> <<\H43, \H52, \H48, \H53, \H4D>>, clue |-> 13, articleLink |-> 13],
    [answer |-> <<\H45, \H54, \H4A, \H55, \H4F>>, clue |-> 14, articleLink |-> 14],
    [answer |-> <<\H41, \H42, \H43, \H44, \H45>>, clue |-> 15, articleLink |-> 15],
    [answer |-> <<\H4B, \H4C, \H4D, \H4E, \H4F>>, clue |-> 16, articleLink |-> 16]>>

\* The draws of the generator in the dense call: the shuffle keeps the
\* order, reverses it, swaps the first two, or moves the first to the end.
DenseDraws ==
  {<<1, 2, 3, 4, 5, 6>>, <<6, 5, 4, 3, 2, 1>>, <<2, 1, 3, 4, 5, 6>>, <<2, 3, 4, 5, 6, 1>>}

\* VWXY, VWXYZ (VWXY with one more letter), ABCDEF and GH.
UnevenWords ==
  <<[answer |-> <<\H56, \H57, \H58, \H59>>, clue |-> 21, articleLink |-> 21],
    [answer |-> <<\H56, \H57, \H58, \H59, \H5A>>, clue |-> 22, articleLink |-> 22],
    [answer |-> <<\H41, \H42, \H43, \H44, \H45, \H46>>, clue |-> 23, articleLink |-> 23],
    [answer |-> <<\H47, \H48>>, clue |-> 24, articleLink |-> 24]>>

\* The calls: the size, the candidates, the states of the generator.
SelectionCalls ==
  {[size |-> 5, words |-> DenseWords, seeds |-> [1..AttemptBound -> DenseDraws]],
   [size |-> 6, words |-> UnevenWords, seeds |-> {<<>>}]}

InitSelection ==
  /\ \E call \in SelectionCalls :
       /\ size = call.size
       /\ words = call.words
       /\ seed \in call.seeds
  /\ previous = <<>>
  /\ pc = "prepare"
  /\ uniqueWords = <<>>
  /\ attempt = 0
  /\ bestResult = <<>>
  /\ shuffled = <<>>
  /\ grid = emptyGrid
  /\ placed = <<>>
  /\ idx = 0
  /\ shortWords = <<>>
  /\ result = <<>>
  /\ store = <<>>
  /\ request = [op |-> "none"]
  /\ response = [op |-> "none"]
  /\ ServicesInit

NextSelection ==
  \/ Prepare
  \/ BeginAttempt
  \/ MainStep
  \/ BeginEdgeFill
  \/ EdgeStep
  \/ EndAttempt
  \/ Finish

SpecSelection == InitSelection /\ [][NextSelection]_vars

\* generateCrossword is synchronous code: once called, it keeps taking its
\* next step.  Weak fairness of every step; for Prepare, MainStep and EdgeStep
\* it is written out as []<>~ENABLED <<A>>_vars \/ []<><<A>>_vars with the
\* step's guard for ENABLED <<A>>_vars (each of them changes pc or idx).
FairSpecSelection ==
  /\ SpecSelection
  /\ WF_vars(BeginAttempt)
  /\ WF_vars(BeginEdgeFill)
  /\ WF_vars(EndAttempt)
  /\ WF_vars(Finish)
  /\ ([]<>~(pc = "prepare") \/ []<><<Prepare>>_vars)
  /\ ([]<>~(pc = "main" /\ idx < Len(shuffled)) \/ []<><<MainStep>>_vars)
  /\ ([]<>~(pc = "edge" /\ idx < Len(shortWords)) \/ []<><<EdgeStep>>_vars)

(***************************************************************************)
(* The background services of the server process: the limiter made by      *)
(* createLimit(2) around the Claude CLI calls, and the feed scheduler.      *)
(* A task is submitted with an async function, so fn() returns a promise    *)
(* that settles later; tasks are numbered in the order of submission.       *)
(***************************************************************************)
\* next() that takes the head of the queue whatever the number of tasks
\* holding a slot (no active < concurrency test).
nextUnlimited(a, q, t, s) ==
  IF Len(q) > 0
  THEN [active |-> a + 1, queue |-> Tail(q),
        tasks |-> [t EXCEPT ![Head(q)].state = "running"], started |-> Append(s, Head(q))]
  ELSE [active |-> a, queue |-> q, tasks |-> t, started |-> s]

\* next(): if (active < concurrency && queue.length > 0) { active++;
\* queue.shift(); fn()... }, from the given active, queue and tasks.
next(a, q, t, s) ==
  IF a < concurrency /\ Len(q) > 0
  THEN [active |-> a + 1, queue |-> Tail(q),
        tasks |-> [t EXCEPT ![Head(q)].state = "running"], started |-> Append(s, Head(q))]
  ELSE [active |-> a, queue |-> q, tasks |-> t, started |-> s]

\* A finally callback that gives the slot back and does not call next().
finallyWithoutNext(a, q, t, s) == [active |-> a - 1, queue |-> q, tasks |-> t, started |-> s]

\* .finally(() => { active--; next(); })
finally(a, q, t, s) == next(a - 1, q, t, s)

\* limit(fn): queue.push({fn, resolve, reject}); next()
Submit ==
  /\ \E id \in 1..MaxTasks :
       /\ tasks[id].state = "new"
       /\ \A j \in 1..id - 1 : tasks[j].state # "new"
       /\ \E after \in {next(active, Append(queue, id),
                             [tasks EXCEPT ![id].state = "queued"], started)} :
            /\ active' = after.active
            /\ queue' = after.queue
            /\ tasks' = after.tasks
            /\ started' = after.started
  /\ UNCHANGED <<schedulerInterval, isRunning, cycles, invocations, lastCall, lastEnd>>
  /\ UNCHANGED <<size, seed, previous, words, pc, uniqueWords, attempt, bestResult, shuffled,
                 grid, placed, idx, shortWords, result, store, request, response>>

\* The promise fn() returned settles: the task resolves or rejects.
Settle(id) ==
  /\ tasks[id].state = "running"
  /\ \E outcome \in {"resolve", "reject"} :
       tasks' = [tasks EXCEPT ![id].state = "settled", ![id].outcome = outcome]
  /\ UNCHANGED <<active, queue, started>>
  /\ UNCHANGED <<schedulerInterval, isRunning, cycles, invocations, lastCall, lastEnd>>
  /\ UNCHANGED <<size, seed, previous, words, pc, uniqueWords, attempt, bestResult, shuffled,
                 grid, placed, idx, shortWords, result, store, request, response>>

\* .then(resolve).catch(reject): the promise limit(fn) returned is settled
\* with the task's outcome.
Deliver(id) ==
  /\ tasks[id].state = "settled"
  /\ tasks' = [tasks EXCEPT ![id].state = "delivered",
                            ![id].promise = IF tasks[id].outcome = "resolve"
                                            THEN "resolved" ELSE "rejected"]
  /\ UNCHANGED <<active, queue, started>>
  /\ UNCHANGED <<schedulerInterval, isRunning, cycles, invocations, lastCall, lastEnd>>
  /\ UNCHANGED <<size, seed, previous, words, pc, uniqueWords, attempt, bestResult, shuffled,
                 grid, placed, idx, shortWords, result, store, request, response>>

\* The finally callback of the task runs.
Release(id) ==
  /\ tasks[id].state = "delivered"
  /\ \E after \in {finally(active, queue, [tasks EXCEPT ![id].state = "done"], started)} :
       /\ active' = after.active
       /\ queue' = after.queue
       /\ tasks' = after.tasks
       /\ started' = after.started
  /\ UNCHANGED <<schedulerInterval, isRunning, cycles, invocations, lastCall, lastEnd>>
  /\ UNCHANGED <<size, seed, previous, words, pc, uniqueWords, attempt, bestResult, shuffled,
                 grid, placed, idx, shortWords, result, store, request, response>>

\* runCycle without the test of isRunning.
runCycleUnguarded(running, cs, n, by) ==
  [isRunning |-> TRUE, cycles |-> ((n + 1) :> "refreshing") @@ cs, invocations |-> n + 1,
   lastCall |-> [by |-> by, did |-> "started"]]

\* runCycle up to its first await: return at once while a cycle is running,
\* else set isRunning and call refreshAllFeeds.
runCycle(running, cs, n, by) ==
  IF running
  THEN [isRunning |-> running, cycles |-> cs, invocations |-> n + 1,
        lastCall |-> [by |-> by, did |-> "skipped"]]
  ELSE [isRunning |-> TRUE, cycles |-> ((n + 1) :> "refreshing") @@ cs, invocations |-> n + 1,
        lastCall |-> [by |-> by, did |-> "started"]]

\* startScheduler: nothing if the timer is set, else runCycle() and setInterval.
StartScheduler ==
  /\ ~schedulerInterval
  /\ invocations < MaxCycles
  /\ \E call \in {runCycle(isRunning, cycles, invocations, "start")} :
       /\ isRunning' = call.isRunning
       /\ cycles' = call.cycles
       /\ invocations' = call.invocations
       /\ lastCall' = call.lastCall
  /\ schedulerInterval' = TRUE
  /\ UNCHANGED <<active, queue, tasks, started, lastEnd>>
  /\ UNCHANGED <<size, seed, previous, words, pc, uniqueWords, attempt, bestResult, shuffled,
                 grid, placed, idx, shortWords, result, store, request, response>>

\* stopScheduler: clearInterval; a cycle in progress goes on.
StopScheduler ==
  /\ schedulerInterval
  /\ schedulerInterval' = FALSE
  /\ UNCHANGED <<active, queue, tasks, started, isRunning, cycles, invocations, lastCall,
                 lastEnd>>
  /\ UNCHANGED <<size, seed, previous, words, pc, uniqueWords, attempt, bestResult, shuffled,
                 grid, placed, idx, shortWords, result, store, request, response>>

\* The interval timer fires: runCycle().
Tick ==
  /\ schedulerInterval
  /\ invocations < MaxCycles
  /\ \E call \in {runCycle(isRunning, cycles, invocations, "timer")} :
       /\ isRunning' = call.isRunning
       /\ cycles' = call.cycles
       /\ invocations' = call.invocations
       /\ lastCall' = call.lastCall
  /\ UNCHANGED <<active, queue, tasks, started, schedulerInterval, lastEnd>>
  /\ UNCHANGED <<size, seed, previous, words, pc, uniqueWords, attempt, bestResult, shuffled,
                 grid, placed, idx, shortWords, result, store, request, response>>

\* triggerCycle: await runCycle().
TriggerCycle ==
  /\ invocations < MaxCycles
  /\ \E call \in {runCycle(isRunning, cycles, invocations, "trigger")} :
       /\ isRunning' = call.isRunning
       /\ cycles' = call.cycles
       /\ invocations' = call.invocations
       /\ lastCall' = call.lastCall
  /\ UNCHANGED <<active, queue, tasks, started, schedulerInterval, lastEnd>>
  /\ UNCHANGED <<size, seed, previous, words, pc, uniqueWords, attempt, bestResult, shuffled,
                 grid, placed, idx, shortWords, result, store, request, response>>

\* The cycles left when the body of invocation id is over.
without(cs, id) == [j \in (DOMAIN cs) \ {id} |-> cs[j]]

\* await refreshAllFeeds() is over: the body goes on to fetchMissingContent,
\* or the call threw and catch and finally run.
RefreshReturns(id) ==
  /\ id \in DOMAIN cycles
  /\ cycles[id] = "refreshing"
  /\ \/ /\ cycles' = [cycles EXCEPT ![id] = "fetching"]
        /\ UNCHANGED <<isRunning, lastEnd>>
     \/ /\ cycles' = without(cycles, id)
        /\ isRunning' = FALSE
        /\ lastEnd' = "threw"
  /\ UNCHANGED <<active, queue, tasks, started, schedulerInterval, invocations, lastCall>>
  /\ UNCHANGED <<size, seed, previous, words, pc, uniqueWords, attempt, bestResult, shuffled,
                 grid, placed, idx, shortWords, result, store, request, response>>

\* await fetchMissingContent() is over, by a value or by an exception: the
\* rest of the try block or the catch block, then finally.
FetchReturns(id) ==
  /\ id \in DOMAIN cycles
  /\ cycles[id] = "fetching"
  /\ cycles' = without(cycles, id)
  /\ isRunning' = FALSE
  /\ \E how \in {"completed", "threw"} : lastEnd' = how
  /\ UNCHANGED <<active, queue, tasks, started, schedulerInterval, invocations, lastCall>>
  /\ UNCHANGED <<size, seed, previous, words, pc, uniqueWords, attempt, bestResult, shuffled,
                 grid, placed, idx, shortWords, result, store, request, response>>

\* The server is up and no puzzle is being generated.
InitServices ==
  /\ size = GridSize
  /\ seed = <<>>
  /\ previous = <<>>
  /\ words = <<>>
  /\ pc = "idle"
  /\ uniqueWords = <<>>
  /\ attempt = 0
  /\ bestResult = <<>>
  /\ shuffled = <<>>
  /\ grid = emptyGrid
  /\ placed = <<>>
  /\ idx = 0
  /\ shortWords = <<>>
  /\ result = <<>>
  /\ store = <<>>
  /\ request = [op |-> "none"]
  /\ response = [op |-> "none"]
  /\ ServicesInit

NextLimiter ==
  \/ Submit
  \/ \E id \in 1..MaxTasks : Settle(id)
  \/ \E id \in 1..MaxTasks : Deliver(id)
  \/ \E id \in 1..MaxTasks : Release(id)

SpecLimiter == InitServices /\ [][NextLimiter]_vars

\* Every started task eventually settles (the premise of the claims about
\* the limiter), and the event loop runs the callbacks of a settled promise.
FairSpecLimiter ==
  /\ SpecLimiter
  /\ \A id \in 1..MaxTasks :
       WF_vars(Settle(id)) /\ WF_vars(Deliver(id)) /\ WF_vars(Release(id))

NextScheduler ==
  \/ StartScheduler
  \/ StopScheduler
  \/ Tick
  \/ TriggerCycle
  \/ \E id \in 1..MaxCycles : RefreshReturns(id)
  \/ \E id \in 1..MaxCycles : FetchReturns(id)

SpecScheduler == InitServices /\ [][NextScheduler]_vars

(***************************************************************************)
(* normalizeJapanese on its own: the function applied to a text, and then  *)
(* to its own output.                                                      *)
(***************************************************************************)
\* Largest length of a text handed to normalizeJapanese.
MaxTextLen == 2

\* Hiragana (small a, small tsu, ne, small wa, small ke), the ten small
\* katakana, full-size katakana (a, tsu, ne, wa, small ke), the long-vowel
\* mark, Latin letters of both cases, digits.
Alphabet ==
  { \H3041, \H3063, \H306D, \H308E, \H3096,
    \H30A1, \H30A3, \H30A5, \H30A7, \H30A9, \H30C3, \H30E3, \H30E5, \H30E7, \H30EE,
    \H30A2, \H30C4, \H30CD, \H30EF, \H30F6,
    \H30FC,
    \H61, \H7A, \H41, \H5A,
    \H30, \H39 }

Texts == UNION {[1..n -> Alphabet] : n \in 0..MaxTextLen}

Implementations == {"crosswordGenerator.ts", "legacy"}

normalizeWith(impl, text) ==
  IF impl = "legacy" THEN normalizeJapaneseLegacy(text) ELSE normalizeJapanese(text)

InitNormalize ==
  /\ size = GridSize
  /\ seed = <<>>
  /\ previous = <<>>
  /\ words = <<>>
  /\ pc = "normalize"
  /\ uniqueWords = <<>>
  /\ attempt = 0
  /\ bestResult = <<>>
  /\ shuffled = <<>>
  /\ grid = emptyGrid
  /\ placed = <<>>
  /\ idx = 0
  /\ shortWords = <<>>
  /\ result = <<>>
  /\ store = <<>>
  /\ \E impl \in Implementations, text \in Texts :
       request = [op |-> "normalizeJapanese", impl |-> impl, original |-> text,
                  text |-> text, pass |-> 1]
  /\ response = [op |-> "none"]
  /\ ServicesInit

\* One call of normalizeJapanese(request.text).
Normalize ==
  /\ pc = "normalize"
  /\ response' = [op |-> "normalizeJapanese", value |-> normalizeWith(request.impl, request.text)]
  /\ pc' = "normalized"
  /\ UNCHANGED <<size, seed, previous, services>>
  /\ UNCHANGED <<words, uniqueWords, attempt, bestResult, shuffled, grid, placed,
                 idx, shortWords, result, store, request>>

\* The output of the first call becomes the input of a second one.
NormalizeAgain ==
  /\ pc = "normalized"
  /\ request.pass = 1
  /\ request' = [request EXCEPT !.text = response.value, !.pass = 2]
  /\ response' = [op |-> "none"]
  /\ pc' = "normalize"
  /\ UNCHANGED <<size, seed, previous, services>>
  /\ UNCHANGED <<words, uniqueWords, attempt, bestResult, shuffled, grid, placed,
                 idx, shortWords, result, store>>

NextNormalize == Normalize \/ NormalizeAgain

SpecNormalize == InitNormalize /\ [][NextNormalize]_vars

(***************************************************************************)
(* What the claims speak about: a grid of letters with the words placed on *)
(* it, as a set of runs {row, col, horizontal, answer}.                    *)
(***************************************************************************)
Cells == (0..size - 1) \X (0..size - 1)

runsOfPlaced(ps) ==
  {[row |-> ps[j].row, col |-> ps[j].col, horizontal |-> ps[j].horizontal,
    answer |-> ps[j].word.answer] : j \in DOMAIN ps}

runsOfWords(ws) ==
  {[row |-> ws[j].startRow, col |-> ws[j].startCol,
    horizontal |-> (ws[j].orientation = "across"), answer |-> ws[j].answer] :
   j \in DOMAIN ws}

lettersOf(cells) == [r \in 0..size - 1 |-> [c \in 0..size - 1 |-> cells[r][c].letter]]

InAttempt == pc \in {"main", "edge"}

\* The grids of an attempt in progress, of the best result kept so far and of
\* the result generateCrossword returned.
Snapshots ==
  (IF InAttempt THEN {[g |-> grid, runs |-> runsOfPlaced(placed)]} ELSE {})
  \cup {[g |-> bestResult[j].grid, runs |-> runsOfPlaced(bestResult[j].placed)] :
        j \in DOMAIN bestResult}
  \cup {[g |-> lettersOf(result[j].grid), runs |-> runsOfWords(result[j].words)] :
        j \in DOMAIN result}

\* The puzzle generateCrossword returned, while createPuzzle holds it.
Returned ==
  {[grid |-> result[j].grid, words |-> result[j].words] : j \in DOMAIN result}

\* The cell of a run at index i (0-based)
runRow(w, i) == IF w.horizontal THEN w.row ELSE w.row + i

runCol(w, i) == IF w.horizontal THEN w.col + i ELSE w.col

InGrid(r, c) == r >= 0 /\ r < size /\ c >= 0 /\ c < size

IsLetter(g, r, c) == InGrid(r, c) /\ g[r][c] # Null

(***************************************************************************)
(* C1  Termination: for every word placed so far, the cell just before its *)
(* first cell and the cell just after its last cell, along its             *)
(* orientation, are blocked whenever they are in bounds; in every grid of  *)
(* an attempt, of the best result and of the returned result.              *)
(***************************************************************************)
TerminationOf(g, runs) ==
  \A w \in runs :
    /\ ~IsLetter(g, runRow(w, -1), runCol(w, -1))
    /\ ~IsLetter(g, runRow(w, Len(w.answer)), runCol(w, Len(w.answer)))

C1_Termination == \A s \in Snapshots : TerminationOf(s.g, s.runs)

(***************************************************************************)
(* C2  Adjacency: for every pair of orthogonally adjacent letter cells     *)
(* there is a placed word in the direction of the adjacency whose run      *)
(* holds both cells at consecutive indices, with their letters.            *)
(***************************************************************************)
\* Run w holds cell (r, c) at index i and the next cell of its direction at i + 1.
HoldsPair(g, w, r, c, horizontal) ==
  /\ w.horizontal = horizontal
  /\ \E i \in 0..Len(w.answer) - 2 :
       /\ runRow(w, i) = r /\ runCol(w, i) = c
       /\ w.answer[i + 1] = g[r][c]
       /\ w.answer[i + 2] = g[runRow(w, i + 1)][runCol(w, i + 1)]

AdjacencyOf(g, runs) ==
  \A rc \in Cells :
    /\ (IsLetter(g, rc[1], rc[2]) /\ IsLetter(g, rc[1], rc[2] + 1))
         => \E w \in runs : HoldsPair(g, w, rc[1], rc[2], TRUE)
    /\ (IsLetter(g, rc[1], rc[2]) /\ IsLetter(g, rc[1] + 1, rc[2]))
         => \E w \in runs : HoldsPair(g, w, rc[1], rc[2], FALSE)

C2_Adjacency == \A s \in Snapshots : AdjacencyOf(s.g, s.runs)

\* A returned grid in which two words cross and a third lies beside one of them.
C2_Witness ==
  \E s \in Snapshots :
    /\ result # <<>>
    /\ s.g = lettersOf(result[1].grid)
    /\ Cardinality(s.runs) >= 3
    /\ \E w \in s.runs : ~w.horizontal

(***************************************************************************)
(* C3  Consistency: for every placed word, the cells of the grid from its  *)
(* start along its orientation spell its normalized answer; as this holds  *)
(* in every state of an attempt, no later placement changes a letter that  *)
(* an earlier one wrote.                                                   *)
(***************************************************************************)
ConsistencyOf(g, runs) ==
  \A w \in runs :
    /\ w.answer = normalizeJapanese(w.answer)
    /\ \A i \in 0..Len(w.answer) - 1 :
         /\ InGrid(runRow(w, i), runCol(w, i))
         /\ g[runRow(w, i)][runCol(w, i)] = w.answer[i + 1]

C3_Consistency ==
  /\ \A s \in Snapshots : ConsistencyOf(s.g, s.runs)
  /\ \A p \in Returned : \A j \in DOMAIN p.words :
       p.words[j].length = Len(p.words[j].answer)

\* An attempt in which a word was written across a letter of an earlier word.
C3_Witness ==
  /\ InAttempt
  /\ Len(placed) >= 2
  /\ \E a, b \in DOMAIN placed :
       /\ a < b
       /\ placed[a].horizontal # placed[b].horizontal
       /\ \E i \in 0..Len(placed[a].word.answer) - 1, k \in 0..Len(placed[b].word.answer) - 1 :
            /\ runRow(placed[a], i) = runRow(placed[b], k)
            /\ runCol(placed[a], i) = runCol(placed[b], k)

(***************************************************************************)
(* C4  Every placed word of a returned puzzle has a clue number >= 1, and  *)
(* that number is the number of the grid cell at its start.                *)
(***************************************************************************)
C4_PositiveNumbers ==
  \A p \in Returned : \A j \in DOMAIN p.words :
    LET w == p.words[j]
    IN /\ w.position >= 1
       /\ p.grid[w.startRow][w.startCol].number # Null
       /\ p.grid[w.startRow][w.startCol].number = w.position

(***************************************************************************)
(* C5  Numbering of the returned grid: a cell has a number iff it is a     *)
(* letter that starts an across run or a down run; the numbers are         *)
(* 1, 2, 3, ... without gaps, strictly increasing in reading order, no two *)
(* cells share one, and a cell starting both runs has one number.          *)
(***************************************************************************)
IsBlocked(cells, r, c) == ~InGrid(r, c) \/ cells[r][c].isBlack

StartsAcross(cells, r, c) ==
  ~IsBlocked(cells, r, c) /\ IsBlocked(cells, r, c - 1) /\ ~IsBlocked(cells, r, c + 1)

StartsDown(cells, r, c) ==
  ~IsBlocked(cells, r, c) /\ IsBlocked(cells, r - 1, c) /\ ~IsBlocked(cells, r + 1, c)

Numbered(cells) == {rc \in Cells : cells[rc[1]][rc[2]].number # Null}

ReadsBefore(a, b) == a[1] < b[1] \/ (a[1] = b[1] /\ a[2] < b[2])

NumberingOf(cells) ==
  /\ \A rc \in Cells : cells[rc[1]][rc[2]].isBlack = (cells[rc[1]][rc[2]].letter = Null)
  /\ \A rc \in Cells :
       rc \in Numbered(cells)
         <=> (StartsAcross(cells, rc[1], rc[2]) \/ StartsDown(cells, rc[1], rc[2]))
  /\ {cells[rc[1]][rc[2]].number : rc \in Numbered(cells)}
       = 1..Cardinality(Numbered(cells))
  /\ \A a, b \in Numbered(cells) :
       ReadsBefore(a, b) => cells[a[1]][a[2]].number < cells[b[1]][b[2]].number

C5_Numbering == \A p \in Returned : NumberingOf(p.grid)

\* A returned grid with a cell that starts both an across and a down run,
\* and numbered cells after it.
C5_Witness ==
  \E p \in Returned :
    /\ \E rc \in Cells : StartsAcross(p.grid, rc[1], rc[2]) /\ StartsDown(p.grid, rc[1], rc[2])
    /\ Cardinality(Numbered(p.grid)) >= 2

(***************************************************************************)
(* C6  canPlaceWord, for an in-bounds start cell, is true iff the run is   *)
(* in bounds, the cells just before and just after it are blocked, every   *)
(* letter cell of the run equals the word's grapheme there, every blocked  *)
(* cell of the run has both perpendicular neighbours blocked, and, when    *)
(* requireIntersection is set, some cell of the run is a letter.           *)
(***************************************************************************)
\* The word the attempt is about to place: the next one of its loop.
NextWord ==
  IF pc = "main" /\ idx < Len(shuffled) THEN {shuffled[idx + 1].answer}
  ELSE IF pc = "edge" /\ idx < Len(shortWords) THEN {shortWords[idx + 1].answer}
  ELSE {}

\* The normalized vocabulary: every word the placement engine may be asked about.
ProbeWords == {normalizeJapanese(Vocabulary[k]) : k \in DOMAIN Vocabulary}

MayPlace(g, word, row, col, horizontal, requireIntersection) ==
  LET w == [row |-> row, col |-> col, horizontal |-> horizontal, answer |-> word]
      run == 0..Len(word) - 1
  IN /\ \A i \in run : InGrid(runRow(w, i), runCol(w, i))
     /\ ~IsLetter(g, runRow(w, -1), runCol(w, -1))
     /\ ~IsLetter(g, runRow(w, Len(word)), runCol(w, Len(word)))
     /\ \A i \in run :
          IF IsLetter(g, runRow(w, i), runCol(w, i))
          THEN g[runRow(w, i)][runCol(w, i)] = word[i + 1]
          ELSE IF horizontal
               THEN ~IsLetter(g, runRow(w, i) - 1, runCol(w, i))
                    /\ ~IsLetter(g, runRow(w, i) + 1, runCol(w, i))
               ELSE ~IsLetter(g, runRow(w, i), runCol(w, i) - 1)
                    /\ ~IsLetter(g, runRow(w, i), runCol(w, i) + 1)
     /\ requireIntersection => \E i \in run : IsLetter(g, runRow(w, i), runCol(w, i))

\* On the grid of the attempt, for the word about to be placed, at every
\* start cell, in both orientations, with and without requireIntersection.
C6_CanPlaceWord ==
  \A word \in NextWord, rc \in Cells, horizontal \in BOOLEAN, req \in BOOLEAN :
    canPlaceWord(grid, word, rc[1], rc[2], horizontal, req)
      <=> MayPlace(grid, word, rc[1], rc[2], horizontal, req)

\* An attempt whose grid holds a word, with a second word that would lie
\* directly beside it in a parallel run that shares no cell with it, refused
\* with and without requireIntersection; and a word that crosses it, accepted.
C6_Witness ==
  /\ InAttempt
  /\ \E p \in Range(placed), word \in ProbeWords :
       /\ p.horizontal
       /\ Len(word) = 2
       /\ p.row + 1 < size
       /\ grid[p.row + 1][p.col] = Null /\ grid[p.row + 1][p.col + 1] = Null
       /\ ~IsLetter(grid, p.row + 1, p.col - 1) /\ ~IsLetter(grid, p.row + 1, p.col + 2)
       /\ ~canPlaceWord(grid, word, p.row + 1, p.col, TRUE, FALSE)
       /\ ~canPlaceWord(grid, word, p.row + 1, p.col, TRUE, TRUE)
  /\ \E word \in ProbeWords, rc \in Cells :
       canPlaceWord(grid, word, rc[1], rc[2], FALSE, TRUE)

(***************************************************************************)
(* C7  normalizeJapanese is idempotent: applied to its own output it       *)
(* returns that output unchanged, for every text over the alphabet.        *)
(***************************************************************************)
C7_Idempotent ==
  (pc = "normalized" /\ request.pass = 2) => response.value = request.text

\* The second call has returned for a text that the first call changed: a
\* small hiragana that went to a full-size katakana, beside a Latin letter.
C7_Witness ==
  /\ pc = "normalized"
  /\ request.pass = 2
  /\ request.impl = "crosswordGenerator.ts"
  /\ request.original = <<\H3063, \H7A>>
  /\ response.value = <<\H30C4, \H5A>>

(***************************************************************************)
(* What a checkAnswers call was asked and returned.                        *)
(***************************************************************************)
Checked ==
  /\ request.op = "checkAnswers"
  /\ response.op = "checkAnswers"
  /\ response.error = ""

\* The stored answer table the call read
CheckedTable == store[request.puzzleId].answers_json

storedAnswer(table, key) == (CHOOSE e \in Range(table) : e.key = key).value

submittedValue(key) == (CHOOSE e \in Range(request.answers) : e.key = key).value

(***************************************************************************)
(* C8  checkAnswers on an existing puzzle: correct and incorrect are       *)
(* disjoint, their union is the set of submitted keys that exist in the    *)
(* stored answer table, and a submitted key is in correct iff the          *)
(* normalized user value equals the stored answer; keys absent from the    *)
(* table are in neither list.                                              *)
(***************************************************************************)
C8_CheckAnswers ==
  Checked =>
    LET submitted == ownKeys(request.answers)
        known == submitted \cap ownKeys(CheckedTable)
    IN /\ Range(response.correct) \cap Range(response.incorrect) = {}
       /\ Range(response.correct) \cup Range(response.incorrect) = known
       /\ \A key \in known :
            key \in Range(response.correct)
              <=> normalizeJapanese(submittedValue(key)) = storedAnswer(CheckedTable, key)

(***************************************************************************)
(* C9  Round trip: checkAnswers called with the stored answer of every key *)
(* of the stored table returns correct = all keys and incorrect = empty.   *)
(***************************************************************************)
C9_RoundTrip ==
  /\ \A id \in (IF pc = "idle" THEN DOMAIN store ELSE {}) :
       LET sheet == checkAnswers(store, id, store[id].answers_json)
       IN /\ sheet.error = ""
          /\ Range(sheet.correct) = ownKeys(store[id].answers_json)
          /\ sheet.incorrect = <<>>
  /\ (Checked /\ request.answers = CheckedTable)
       => /\ Range(response.correct) = ownKeys(CheckedTable)
          /\ response.incorrect = <<>>

\* The call was made with the whole table of a puzzle of three clues.
C9_Witness ==
  /\ Checked
  /\ request.answers = CheckedTable
  /\ Len(CheckedTable) >= 3
  /\ Len(response.correct) >= 3

(***************************************************************************)
(* C10 as stated: a submission that differs from the stored answer in a    *)
(* grapheme or in length puts the key in incorrect and not in correct.     *)
(***************************************************************************)
C10_AnyDifference ==
  Checked =>
    \A key \in ownKeys(request.answers) \cap ownKeys(CheckedTable) :
      submittedValue(key) # storedAnswer(CheckedTable, key)
        => /\ key \in Range(response.incorrect)
           /\ key \notin Range(response.correct)

(***************************************************************************)
(* C10 amended: a submission whose normalized form differs from the stored *)
(* answer in a grapheme or in length puts the key in incorrect and not in  *)
(* correct.                                                                *)
(***************************************************************************)
C10_NormalizedDifference ==
  Checked =>
    \A key \in ownKeys(request.answers) \cap ownKeys(CheckedTable) :
      normalizeJapanese(submittedValue(key)) # storedAnswer(CheckedTable, key)
        => /\ key \in Range(response.incorrect)
           /\ key \notin Range(response.correct)

\* One key was submitted with a single grapheme altered and another with a
\* shorter string than its stored answer; both came back incorrect.
C10_Witness ==
  /\ Checked
  /\ \E a, b \in Range(response.incorrect) \cap ownKeys(CheckedTable) :
       /\ Len(submittedValue(a)) = Len(storedAnswer(CheckedTable, a))
       /\ Cardinality({k \in DOMAIN submittedValue(a) :
                         normalizeJapanese(submittedValue(a))[k]
                           # storedAnswer(CheckedTable, a)[k]}) = 1
       /\ Len(submittedValue(b)) < Len(storedAnswer(CheckedTable, b))

(***************************************************************************)
(* C11  Hint shape: for a stored answer of L graphemes under the key       *)
(* "{number}-{orientation}", getHint (puzzleService.ts and legacy) returns *)
(* total = L, revealed = 1 and a hint of L graphemes: the first grapheme   *)
(* of the stored answer, then L - 1 full-width underscores.                *)
(***************************************************************************)
HintShape(h, answer) ==
  /\ h.error = ""
  /\ h.total = Len(answer)
  /\ h.revealed = 1
  /\ Len(h.hint) = Len(answer)
  /\ h.hint[1] = answer[1]
  /\ \A k \in 2..Len(answer) : h.hint[k] = FullWidthUnderscore

C11_HintShape ==
  /\ \A id \in (IF pc = "idle" THEN DOMAIN store ELSE {}) :
       \A w \in Range(store[id].words_json) :
         LET answer == storedAnswer(store[id].answers_json,
                                    answerKey(w.position, w.orientation))
         IN /\ HintShape(getHint(store, id, w.position, w.orientation), answer)
            /\ HintShape(getHintLegacy(store, id, w.position, w.orientation), answer)
  /\ (request.op = "getHint" /\ response.op = "getHint" /\ response.error = "")
       => HintShape(response,
                    storedAnswer(store[request.puzzleId].answers_json,
                                 answerKey(request.clueNumber, request.direction)))

\* A hint was served for a stored answer of three graphemes: the first
\* grapheme and two underscores.
C11_Witness ==
  /\ pc = "responding"
  /\ request.op = "getHint"
  /\ response.op = "getHint"
  /\ response.error = ""
  /\ response.total = 3
  /\ response.hint = <<\H30CD, FullWidthUnderscore, FullWidthUnderscore>>

(***************************************************************************)
(* C12  Error outcomes of the play operations: getHint fails with 'Clue    *)
(* not found' and returns no hint when the key "{number}-{orientation}" is *)
(* absent from the stored answer table; checkAnswers and getHint fail with *)
(* 'Puzzle not found' and return no success result when the puzzle id is   *)
(* unknown or the stored record has no answer table.                       *)
(***************************************************************************)
\* The store with the answer table of the row id taken away.
withoutAnswers(db, id) ==
  [j \in DOMAIN db |->
     IF j = id THEN [f \in (DOMAIN db[j]) \ {"answers_json"} |-> db[j][f]] ELSE db[j]]

IsFailure(r, message) ==
  /\ r.error = message
  /\ DOMAIN r = {"op", "error"}

C12_ErrorOutcomes ==
  /\ (pc = "responding" /\ request.op = "getHint")
       => IF request.puzzleId \notin DOMAIN store
          THEN IsFailure(response, "Puzzle not found")
          ELSE answerKey(request.clueNumber, request.direction)
                 \notin ownKeys(store[request.puzzleId].answers_json)
               => IsFailure(response, "Clue not found")
  /\ (pc = "responding" /\ request.op = "checkAnswers"
        /\ request.puzzleId \notin DOMAIN store)
       => IsFailure(response, "Puzzle not found")
  /\ \A id \in (IF pc = "idle" THEN DOMAIN store ELSE {}) :
       /\ \A answers \in {<<>>, store[id].answers_json} :
            IsFailure(checkAnswers(withoutAnswers(store, id), id, answers),
                      "Puzzle not found")
       /\ \A clueNumber \in ClueNumbers, direction \in Directions :
            IsFailure(getHint(withoutAnswers(store, id), id, clueNumber, direction),
                      "Puzzle not found")

\* A hint was asked of a stored puzzle for a clue its table does not hold.
C12_Witness ==
  /\ pc = "responding"
  /\ request.op = "getHint"
  /\ request.puzzleId \in DOMAIN store
  /\ answerKey(request.clueNumber, request.direction)
       \notin ownKeys(store[request.puzzleId].answers_json)
  /\ response.error = "Clue not found"

(***************************************************************************)
(* C13  If no candidate is left after normalization and the length filter  *)
(* (2 <= length <= N), generateCrossword fails with the synthesis error    *)
(* instead of returning a grid, createPuzzle propagates the failure, and   *)
(* no puzzle record is written to the store.                               *)
(***************************************************************************)
\* No candidate of the list ws passes the length filter.
NoneUsable(ws) ==
  \A j \in DOMAIN ws :
    LET len == Len(normalizeJapanese(ws[j].answer)) IN len < 2 \/ len > size

\* generateCrossword is running on an empty candidate list.
EmptyRun == pc \in {"attempt", "main", "edge", "exit"} /\ uniqueWords = <<>>

InsufficientWordsStep ==
  /\ (pc = "prepare" /\ NoneUsable(words)) => EmptyRun'
  /\ EmptyRun => /\ EmptyRun' \/ pc' = "failed"
                 /\ placed' = <<>>
                 /\ result' = <<>>
                 /\ store' = store
  /\ pc = "failed" => /\ pc' = "idle"
                      /\ store' = store
                      /\ NewPuzzleId \notin DOMAIN store'
                      /\ response' = [op |-> "createPuzzle",
                                      error |-> "Failed to generate crossword"]

C13_InsufficientWords == [][InsufficientWordsStep]_vars

\* createPuzzle has failed with the synthesis error and the store is empty.
C13_Witness ==
  /\ pc = "idle"
  /\ response = [op |-> "createPuzzle", error |-> "Failed to generate crossword"]
  /\ store = <<>>

(***************************************************************************)
(* C14  The stored answer table is never part of a response: the value     *)
(* returned by createPuzzle and the body produced by GET /:id have no      *)
(* field _answers, while the persisted record does hold the table.         *)
(***************************************************************************)
C14_AnswersNotReturned ==
  /\ "_answers" \notin DOMAIN response
  /\ "answers_json" \notin DOMAIN response
  /\ "value" \in DOMAIN response
       => /\ "_answers" \notin DOMAIN response.value
          /\ "answers_json" \notin DOMAIN response.value
  /\ \A id \in DOMAIN store :
       /\ "answers_json" \in DOMAIN store[id]
       /\ store[id].answers_json = answersReduce(store[id].words_json, <<>>)
       /\ store[id].answers_json # <<>>

\* GET /:id has answered with a stored puzzle.
C14_Witness ==
  /\ pc = "responding"
  /\ request.op = "getPuzzle"
  /\ response.error = ""
  /\ request.puzzleId \in DOMAIN store
  /\ response.value.words = store[request.puzzleId].words_json

(***************************************************************************)
(* C15  In every puzzle record built by createPuzzle, clues.across holds   *)
(* exactly the placed words with orientation across and clues.down exactly *)
(* those with orientation down, and within each list the entries appear in *)
(* ascending order of clue number.                                         *)
(***************************************************************************)
\* The clue list holds one entry per word of the orientation, and no other.
Bucketed(clues, ws, orientation) ==
  LET kept == {j \in DOMAIN ws : ws[j].orientation = orientation}
  IN /\ Len(clues) = Cardinality(kept)
     /\ \E f \in [DOMAIN clues -> kept] :
          /\ \A a, b \in DOMAIN clues : a # b => f[a] # f[b]
          /\ \A a \in DOMAIN clues : clues[a] = clueOf(ws[f[a]])

Ascending(clues) ==
  \A a, b \in DOMAIN clues : a < b => clues[a].number <= clues[b].number

BucketedRecord(row) ==
  /\ Bucketed(row.clues_json.across, row.words_json, "across")
  /\ Bucketed(row.clues_json.down, row.words_json, "down")

C15_ClueLists ==
  (pc = "idle" /\ response.op = "createPuzzle")
    => \A id \in DOMAIN store :
         /\ BucketedRecord(store[id])
         /\ Ascending(store[id].clues_json.across)
         /\ Ascending(store[id].clues_json.down)

(***************************************************************************)
(* C16  Record lifecycle: after a puzzle has been saved, get(id) returns   *)
(* it until delete(id) is executed; after a successful delete(id), get,    *)
(* checkAnswers and getHint report not-found in every later state; delete  *)
(* of an id that is not stored reports not-found and leaves the store      *)
(* unchanged; checkAnswers, getHint and get never change the stored record.*)
(***************************************************************************)
\* The step is the handling of a request of one of the operations ops.
Handles(ops) == pc = "idle" /\ pc' = "responding" /\ request'.op \in ops

LifecycleStep ==
  /\ Handles({"getPuzzle", "checkAnswers", "getHint"})
       => /\ store' = store
          /\ request'.puzzleId \notin DOMAIN store
               => response'.error = "Puzzle not found"
  /\ (Handles({"getPuzzle"}) /\ request'.puzzleId \in DOMAIN store)
       => /\ response'.error = ""
          /\ response'.value.id = request'.puzzleId
          /\ response'.value.grid = store[request'.puzzleId].grid_json
          /\ response'.value.words = store[request'.puzzleId].words_json
          /\ response'.value.clues = store[request'.puzzleId].clues_json
  /\ Handles({"deletePuzzle"})
       => IF request'.puzzleId \in DOMAIN store
          THEN /\ response'.error = ""
               /\ DOMAIN store' = (DOMAIN store) \ {request'.puzzleId}
               /\ \A id \in DOMAIN store' : store'[id] = store[id]
          ELSE /\ response'.error = "Puzzle not found"
               /\ store' = store
  /\ \A id \in DOMAIN store :
       \/ (id \in DOMAIN store' /\ store'[id] = store[id])
       \/ (Handles({"deletePuzzle"}) /\ request'.puzzleId = id)
  /\ \A id \in RequestIds :
       (pc \in {"idle", "responding"} /\ id \notin DOMAIN store)
         => id \notin DOMAIN store'

C16_Lifecycle == [][LifecycleStep]_vars

\* The stored puzzle has just been deleted.
C16_Witness ==
  /\ pc = "responding"
  /\ request = [op |-> "deletePuzzle", puzzleId |-> NewPuzzleId]
  /\ response = [op |-> "deletePuzzle", error |-> ""]
  /\ NewPuzzleId \notin DOMAIN store

(***************************************************************************)
(* Scenario S1 and repeated calls (specification SpecSeeded).              *)
(***************************************************************************)
\* The call under way was given the candidates of S1.
IsS1 == previous # <<>> /\ previous[1].words = S1Words /\ size = S1Size

\* Where the words of a result lie: {answer, row, col, orientation}.
layoutOf(r) ==
  {[answer |-> w.answer, row |-> w.startRow, col |-> w.startCol,
    orientation |-> w.orientation] : w \in Range(r.words)}

numberedCells(r) == {rc \in Cells : r.grid[rc[1]][rc[2]].number # Null}

\* NEKO across in row 3 at columns 2-3, KOTO down through KO, TORI across
\* through TO; numbered starts (3,2), (3,3), (4,3).
S1Layout(r) ==
  /\ Len(r.words) = 3
  /\ layoutOf(r) = {[answer |-> Vocabulary[1], row |-> 3, col |-> 2, orientation |-> "across"],
                    [answer |-> Vocabulary[3], row |-> 3, col |-> 3, orientation |-> "down"],
                    [answer |-> Vocabulary[4], row |-> 4, col |-> 3, orientation |-> "across"]}
  /\ numberedCells(r) = {<<3, 2>>, <<3, 3>>, <<4, 3>>}

\* The same layout mirrored in the diagonal (rows and columns exchanged).
S1LayoutVertical(r) ==
  /\ Len(r.words) = 3
  /\ layoutOf(r) = {[answer |-> Vocabulary[1], row |-> 2, col |-> 3, orientation |-> "down"],
                    [answer |-> Vocabulary[3], row |-> 3, col |-> 3, orientation |-> "across"],
                    [answer |-> Vocabulary[4], row |-> 3, col |-> 4, orientation |-> "down"]}
  /\ numberedCells(r) = {<<2, 3>>, <<3, 3>>, <<3, 4>>}

(***************************************************************************)
(* C17  Scenario S1: for N = 7 and the candidates NEKO, KOTO, TORI,        *)
(* generateCrossword returns three placed words: NEKO across in row 3 at   *)
(* columns 2-3, KOTO down through the KO cell, TORI across through the TO  *)
(* cell, with numbered start cells exactly (3,2), (3,3), (4,3) (or the     *)
(* symmetric vertical variant), on every run.                              *)
(***************************************************************************)
C17_ScenarioS1 ==
  (pc = "generated" /\ IsS1) => S1Layout(result[1]) \/ S1LayoutVertical(result[1])

(***************************************************************************)
(* C17 amended: in the runs whose first attempt shuffles the candidates    *)
(* into the input order NEKO, KOTO, TORI the result is the layout of S1;   *)
(* in every run the result holds two or three of the candidates and its    *)
(* first word lies across in row 3 at columns 2-3.                         *)
(***************************************************************************)
C17_S1InInputOrder ==
  (pc = "generated" /\ IsS1)
    => /\ seed[1] = [i \in 1..3 |-> i] => S1Layout(result[1])
       /\ Len(result[1].words) \in {2, 3}
       /\ result[1].words[1].orientation = "across"
       /\ result[1].words[1].startRow = 3
       /\ result[1].words[1].startCol = 2

\* A run of S1 whose first shuffle kept the input order has returned.
C17_Witness ==
  /\ pc = "generated"
  /\ IsS1
  /\ seed[1] = [i \in 1..3 |-> i]
  /\ S1Layout(result[1])

Usable(answer) == Len(answer) >= 2 /\ Len(answer) <= size

NoRepeatedAnswer(ws) ==
  \A a, b \in DOMAIN ws : a # b => ws[a].answer # ws[b].answer

\* u is what pre-processing must make of the input list ws.
PreprocessedFrom(ws, u) ==
  /\ \A w \in Range(u) : Usable(w.answer)
  /\ NoRepeatedAnswer(u)
  /\ \A w \in Range(u) :
       \E j \in DOMAIN ws :
         /\ normalizeJapanese(ws[j].answer) = w.answer
         /\ ws[j].clue = w.clue
         /\ ws[j].articleLink = w.articleLink
         /\ \A i \in 1..j - 1 : normalizeJapanese(ws[i].answer) # w.answer
  /\ \A j \in DOMAIN ws :
       Usable(normalizeJapanese(ws[j].answer))
         => \E w \in Range(u) : w.answer = normalizeJapanese(ws[j].answer)

\* Pre-processing has run and no attempt has begun.
Prepared == pc = "attempt" /\ attempt = 0 /\ bestResult = <<>>

C19_Preprocessing ==
  /\ Prepared => PreprocessedFrom(words, uniqueWords)
  /\ InAttempt => /\ Len(shuffled) = Len(uniqueWords)
                  /\ Range(shuffled) = Range(uniqueWords)
                  /\ NoRepeatedAnswer([j \in DOMAIN placed |-> placed[j].word])
  /\ \A p \in Returned : NoRepeatedAnswer(p.words)

\* The input held NEKO in katakana and then in hiragana, and a one-grapheme
\* answer: one candidate NEKO is retained, with the clue of the first.
C19_Witness ==
  /\ Prepared
  /\ \E a, b, c \in DOMAIN words :
       /\ a < b
       /\ words[a].answer = Vocabulary[1]
       /\ words[b].answer = Vocabulary[2]
       /\ words[c].answer = Vocabulary[6]
  /\ Len(uniqueWords) = 1
  /\ uniqueWords[1].clue = 1

(***************************************************************************)
(* C20  findPlacements(grid, word, requireIntersection): every returned    *)
(* placement satisfies canPlaceWord with the same flag on the same grid    *)
(* and its intersections field equals the number of letter cells in its    *)
(* run; with requireIntersection = true the set of returned (row, col,     *)
(* orientation) equals the set of all starts accepted by canPlaceWord(..., *)
(* true); with requireIntersection = false, placements with zero           *)
(* intersections are returned only when no intersecting placement exists.  *)
(***************************************************************************)
startOf(p) == <<<<p.row, p.col>>, p.horizontal>>

\* Letter cells in the run of word from (row, col).
lettersInRun(g, word, row, col, horizontal) ==
  Cardinality({i \in 0..Len(word) - 1 :
                 IsLetter(g, IF horizontal THEN row ELSE row + i,
                             IF horizontal THEN col + i ELSE col)})

FindPlacementsOn(g, word) ==
  LET required == findPlacements(g, word, TRUE)
      optional == findPlacements(g, word, FALSE)
      returned(req) == IF req THEN required ELSE optional
  IN /\ \A req \in BOOLEAN :
          \A p \in Range(returned(req)) :
            /\ InGrid(p.row, p.col)
            /\ canPlaceWord(g, word, p.row, p.col, p.horizontal, req)
            /\ p.intersections = lettersInRun(g, word, p.row, p.col, p.horizontal)
     /\ {startOf(p) : p \in Range(required)}
          = {st \in Cells \X BOOLEAN :
               canPlaceWord(g, word, st[1][1], st[1][2], st[2], TRUE)}
     /\ (\E p \in Range(optional) : p.intersections = 0)
          => ~\E st \in Cells \X BOOLEAN :
                /\ lettersInRun(g, word, st[1][1], st[1][2], st[2]) > 0
                /\ canPlaceWord(g, word, st[1][1], st[1][2], st[2], FALSE)

C20_FindPlacements == \A word \in NextWord : FindPlacementsOn(grid, word)

\* The edge-fill pass is about to place a word that crosses nothing, so the
\* second scan supplies its placements; another word has several crossing
\* placements on the same grid.
C20_Witness ==
  /\ pc = "edge"
  /\ \E word \in NextWord :
       /\ findPlacements(grid, word, TRUE) = <<>>
       /\ Len(findPlacements(grid, word, FALSE)) > 1
       /\ \A p \in Range(findPlacements(grid, word, FALSE)) : p.intersections = 0
  /\ \E word \in ProbeWords :
       Cardinality({startOf(p) : p \in Range(findPlacements(grid, word, TRUE))}) > 1

(***************************************************************************)
(* C21  Main pass: for each non-seed candidate in the attempt's order, the *)
(* word is placed iff at least one placement with an intersection is valid *)
(* on the current grid, and the placement used has the maximum             *)
(* intersection count among all valid placements of that word; hence every *)
(* word placed in the main pass shares at least one cell with a previously *)
(* placed word.                                                            *)
(***************************************************************************)
\* The cells of the run of a placed word.
cellsOfPlaced(p) ==
  {<<IF p.horizontal THEN p.row ELSE p.row + i,
     IF p.horizontal THEN p.col + i ELSE p.col>> : i \in 0..Len(p.word.answer) - 1}

\* The starts at which word may be placed on g with the flag req.
validStarts(g, word, req) ==
  {st \in Cells \X BOOLEAN : canPlaceWord(g, word, st[1][1], st[1][2], st[2], req)}

MainPassStep ==
  (pc = "main" /\ idx < Len(shuffled) /\ idx' = idx + 1) =>
    LET word == shuffled[idx + 1]
        crossing == validStarts(grid, word.answer, TRUE)
    IN /\ (placed' # placed) <=> (crossing # {})
       /\ placed' # placed =>
            LET used == placed'[Len(placed')]
            IN /\ placed' = Append(placed, used)
               /\ used.word = word
               /\ <<<<used.row, used.col>>, used.horizontal>> \in crossing
               /\ grid' = placeWord(grid, word.answer, used.row, used.col, used.horizontal)
               /\ \A st \in validStarts(grid, word.answer, FALSE) :
                    lettersInRun(grid, word.answer, st[1][1], st[1][2], st[2])
                      <= lettersInRun(grid, word.answer, used.row, used.col, used.horizontal)
               /\ \E q \in Range(placed) : cellsOfPlaced(q) \cap cellsOfPlaced(used) # {}
       /\ placed' = placed => grid' = grid

C21_MainPass == [][MainPassStep]_vars

\* The main pass has just placed a word where it crosses the most letters,
\* although a valid placement crossing fewer was on offer; and an attempt in
\* which the main pass has skipped a word that crosses nothing.
C21_Witness ==
  /\ pc = "main"
  /\ idx > 1
  /\ Len(placed) > 1
  /\ LET used == placed[Len(placed)]
         before == [j \in 1..Len(placed) - 1 |-> placed[j]]
     IN /\ used.word = shuffled[idx]
        /\ Cardinality(cellsOfPlaced(used) \cap UNION {cellsOfPlaced(q) : q \in Range(before)}) > 1
  /\ Len(placed) < idx

(***************************************************************************)
(* C22  Edge-fill pass: every word placed in this pass was not placed      *)
(* earlier in the attempt, has at most 3 graphemes, is accepted by         *)
(* canPlaceWord(..., requireIntersection = false) on the grid as it is at  *)
(* that moment, and its start or end row/column equals 0 or N-1.           *)
(***************************************************************************)
endRow(p) == IF p.horizontal THEN p.row ELSE p.row + Len(p.word.answer) - 1

endCol(p) == IF p.horizontal THEN p.col + Len(p.word.answer) - 1 ELSE p.col

OnEdge(p) == {p.row, p.col, endRow(p), endCol(p)} \cap {0, size - 1} # {}

EdgeFillStep ==
  (pc = "edge" /\ pc' = "edge" /\ placed' # placed) =>
    LET used == placed'[Len(placed')]
    IN /\ placed' = Append(placed, used)
       /\ \A q \in Range(placed) : q.word.answer # used.word.answer
       /\ Len(used.word.answer) <= 3
       /\ canPlaceWord(grid, used.word.answer, used.row, used.col, used.horizontal, FALSE)
       /\ grid' = placeWord(grid, used.word.answer, used.row, used.col, used.horizontal)
       /\ OnEdge(used)

C22_EdgeFill == [][EdgeFillStep]_vars

\* The edge-fill pass has just placed a word that the main pass had skipped:
\* it crosses a letter of a word placed after that and starts on an edge,
\* away from the corner where the second scan would have put it.
C22_Witness ==
  /\ pc = "edge"
  /\ idx > 0
  /\ Len(placed) > 1
  /\ LET used == placed[Len(placed)]
     IN /\ used.word = shortWords[idx]
        /\ OnEdge(used)
        /\ <<used.row, used.col>> # <<0, 0>>
        /\ \E j \in 1..Len(placed) - 1 : cellsOfPlaced(placed[j]) \cap cellsOfPlaced(used) # {}

(***************************************************************************)
(* C23  Attempt selection: after each attempt the retained best result is  *)
(* replaced only when the attempt's density is strictly higher than the    *)
(* best's, or the densities are equal and the attempt placed strictly more *)
(* words; therefore the retained best has the maximum density of all       *)
(* attempts run so far and is never replaced by a less dense result.       *)
(***************************************************************************)
\* An attempt ends: the step of lines 329-339.
AttemptEnds == pc = "edge" /\ pc' \in {"attempt", "exit"}

SelectionStep ==
  AttemptEnds =>
    /\ bestResult' # <<>>
    /\ bestResult' # bestResult =>
         /\ bestResult'[1] = [grid |-> grid, placed |-> placed,
                              density |-> calculateDensity(grid)]
         /\ \/ bestResult = <<>>
            \/ bestResult'[1].density > bestResult[1].density
            \/ /\ bestResult'[1].density = bestResult[1].density
               /\ Len(bestResult'[1].placed) > Len(bestResult[1].placed)
    /\ bestResult'[1].density >= calculateDensity(grid)
    /\ bestResult # <<>> => bestResult'[1].density >= bestResult[1].density

C23_BestSelection == [][SelectionStep]_vars

(***************************************************************************)
(* C24  Early exit and bound: the attempt loop runs at most 100 attempts   *)
(* and always terminates; it stops immediately after the first attempt     *)
(* with density >= 80% and placed-word count >= target(N) (6 for N <= 7,   *)
(* 18 for 8..10, 25 for 11..12, 35 for N >= 13), and in that case the      *)
(* result returned is that attempt's grid and words.                       *)
(***************************************************************************)
target(N) == IF N <= 7 THEN 6 ELSE IF N <= 10 THEN 18 ELSE IF N <= 12 THEN 25 ELSE 35

\* density >= 80% and enough words, on the grid and the list of an attempt.
Reaches(g, placedWords) ==
  /\ 100 * Cardinality({rc \in Cells : g[rc[1]][rc[2]] # Null}) >= 80 * size * size
  /\ Len(placedWords) >= target(size)

\* The placements of the returned words, in the order returned.
placementsOf(res) ==
  [j \in DOMAIN res.words |->
     [answer |-> res.words[j].answer, row |-> res.words[j].startRow,
      col |-> res.words[j].startCol, horizontal |-> res.words[j].orientation = "across"]]

EarlyExitStep ==
  /\ AttemptEnds =>
       /\ attempt < 100
       /\ (pc' = "exit") <=> Reaches(grid, placed)
       /\ pc' = "exit" => (bestResult'[1].grid = grid /\ bestResult'[1].placed = placed)
       /\ pc' = "attempt" => attempt' = attempt + 1
  /\ (pc = "attempt" /\ pc' = "main") => attempt < 100
  /\ pc = "exit" =>
       /\ pc' \in {"exit", "generated"}
       /\ pc' = "generated" =>
            /\ lettersOf(result'[1].grid) = bestResult[1].grid
            /\ placementsOf(result'[1]) =
                 [j \in DOMAIN bestResult[1].placed |->
                    [answer |-> bestResult[1].placed[j].word.answer,
                     row |-> bestResult[1].placed[j].row,
                     col |-> bestResult[1].placed[j].col,
                     horizontal |-> bestResult[1].placed[j].horizontal]]

startingAt(ws, r, c) ==
  {ws[j].orientation : j \in {k \in DOMAIN ws : ws[k].startRow = r /\ ws[k].startCol = c}}

NumberedOnlyAtStarts(p) ==
  \A rc \in Numbered(p.grid) :
    /\ p.grid[rc[1]][rc[2]].letter # Null
    /\ ~p.grid[rc[1]][rc[2]].isBlack
    /\ startingAt(p.words, rc[1], rc[2]) # {}
    /\ StartsAcross(p.grid, rc[1], rc[2]) => "across" \in startingAt(p.words, rc[1], rc[2])
    /\ StartsDown(p.grid, rc[1], rc[2]) => "down" \in startingAt(p.words, rc[1], rc[2])

C25_NumbersOnlyAtStarts == \A p \in Returned : NumberedOnlyAtStarts(p)

\* A returned puzzle with a numbered cell at which an across word and a down
\* word start, a numbered cell at which only one word starts, and a letter
\* cell inside a word that carries no number.
C25_Witness ==
  \E p \in Returned :
    /\ \E rc \in Numbered(p.grid) : startingAt(p.words, rc[1], rc[2]) = {"across", "down"}
    /\ \E rc \in Numbered(p.grid) : Cardinality(startingAt(p.words, rc[1], rc[2])) = 1
    /\ \E rc \in Cells \ Numbered(p.grid) : p.grid[rc[1]][rc[2]].letter # Null

(***************************************************************************)
(* C26  In every puzzle record built by createPuzzle, distinct placed      *)
(* words have distinct "{number}-{orientation}" keys (no two words of the  *)
(* same orientation start at the same cell), so the stored answer table    *)
(* has exactly one entry per placed word and its size equals words.length. *)
(***************************************************************************)
\* The records of the puzzles table that carry an answer table.
Records == {store[id] : id \in {i \in DOMAIN store : "answers_json" \in DOMAIN store[i]}}

OneEntryPerWord(row) ==
  LET ws == row.words_json
  IN /\ \A j, k \in DOMAIN ws :
          j # k => /\ <<ws[j].position, ws[j].orientation>> # <<ws[k].position, ws[k].orientation>>
                   /\ <<ws[j].startRow, ws[j].startCol, ws[j].orientation>>
                        # <<ws[k].startRow, ws[k].startCol, ws[k].orientation>>
     /\ Len(row.answers_json) = Len(ws)
     /\ \A j \in DOMAIN ws :
          \E e \in Range(row.answers_json) :
            e.key = answerKey(ws[j].position, ws[j].orientation) /\ e.value = ws[j].answer

C26_DistinctKeys == \A row \in Records : OneEntryPerWord(row)

(***************************************************************************)
(* C27  Whenever at least one candidate survives pre-processing            *)
(* (normalized length between 2 and N), generateCrossword succeeds and     *)
(* returns at least one placed word, because the centred seed placement    *)
(* (row floor(N/2), col floor((N-L)/2), across) on the empty grid is never *)
(* rejected by canPlaceWord; so synthesis fails iff the filtered candidate *)
(* list is empty.                                                          *)
(***************************************************************************)
SeedStep ==
  /\ (pc = "attempt" /\ pc' = "main" /\ uniqueWords # <<>>) =>
       /\ Len(placed') = 1
       /\ placed'[1] = [word |-> shuffled'[1], row |-> size \div 2,
                        col |-> (size - Len(shuffled'[1].answer)) \div 2, horizontal |-> TRUE]
       /\ canPlaceWord(emptyGrid, shuffled'[1].answer, placed'[1].row, placed'[1].col,
                       TRUE, FALSE)
       /\ \A i \in 0..Len(shuffled'[1].answer) - 1 :
            grid'[placed'[1].row][placed'[1].col + i] = shuffled'[1].answer[i + 1]
  /\ (pc \in {"attempt", "exit"} /\ pc' \in {"failed", "generated"}) =>
       /\ (pc' = "failed") <=> (uniqueWords = <<>>)
       /\ pc' = "generated" => Len(result'[1].words) >= 1

C27_SeedAlwaysPlaced == [][SeedStep]_vars

\* generateCrossword has returned a puzzle whose only word is the seed: the
\* one surviving candidate, across on the middle row, centred.
C27_Witness ==
  /\ pc = "generated"
  /\ Len(result[1].words) = 1
  /\ result[1].words[1].orientation = "across"
  /\ result[1].words[1].startRow = size \div 2
  /\ result[1].words[1].startCol = (size - result[1].words[1].length) \div 2

(***************************************************************************)
(* C28  For the limiter returned by createLimit(2), under any interleaving *)
(* of task submissions and task completions, at most 2 submitted tasks are *)
(* running at any time (0 <= active <= 2 in every reachable state) and     *)
(* tasks are started in the order in which they were submitted (FIFO).     *)
(***************************************************************************)
\* The tasks whose fn has been called and whose promise has not settled.
Running == {id \in 1..MaxTasks : tasks[id].state = "running"}

\* The tasks that hold a slot: started, finally callback not yet run.
Holding == {id \in 1..MaxTasks : tasks[id].state \in {"running", "settled", "delivered"}}

C28_AtMostTwoFifo ==
  /\ active >= 0 /\ active <= 2
  /\ Cardinality(Running) <= 2
  /\ Cardinality(Holding) = active
  /\ \A j, k \in DOMAIN started : j < k => started[j] < started[k]
  /\ \A id \in 1..MaxTasks :
       tasks[id].state \notin {"new", "queued"} <=> \E k \in DOMAIN started : started[k] = id
  /\ \A j, k \in DOMAIN queue : j < k => queue[j] < queue[k]

\* Both slots are taken, one of them by a task that has already rejected,
\* and two more tasks wait in the queue.
C28_Witness ==
  /\ active = 2
  /\ Len(queue) = 2
  /\ \E id \in Holding : tasks[id].outcome = "reject"
  /\ Cardinality(Running) = 1

(***************************************************************************)
(* C29  Every task submitted to the createLimit limiter is eventually      *)
(* started and its returned promise eventually settles with the task's own *)
(* outcome (resolve or reject), provided every started task eventually     *)
(* settles; a rejected task releases its slot just like a resolved one, so *)
(* the queue never stalls while it is non-empty and a slot is free.        *)
(***************************************************************************)
\* The promise limit(fn) returned has the outcome of the task, or is pending.
OwnOutcome(id) ==
  /\ tasks[id].promise = "resolved" => tasks[id].outcome = "resolve"
  /\ tasks[id].promise = "rejected" => tasks[id].outcome = "reject"
  /\ tasks[id].promise = "pending" <=> tasks[id].state \in {"new", "queued", "running", "settled"}

\* A finally callback gives the slot back, or hands it to the head of the
\* queue, whatever the outcome of its task.
SlotReleasedStep ==
  \A id \in 1..MaxTasks :
    (tasks[id].state = "delivered" /\ tasks'[id].state = "done") =>
      IF queue = <<>>
      THEN active' = active - 1 /\ started' = started
      ELSE active' = active /\ started' = Append(started, Head(queue)) /\ queue' = Tail(queue)

C29_EverySubmittedSettles ==
  /\ [](\A id \in 1..MaxTasks : OwnOutcome(id))
  /\ [](queue # <<>> => active = 2)
  /\ [][SlotReleasedStep]_vars
  /\ \A id \in 1..MaxTasks :
       /\ (tasks[id].state = "queued") ~> (tasks[id].state = "running")
       /\ (tasks[id].state # "new") ~> (tasks[id].promise # "pending")

\* Four tasks were submitted and all are over: the first two rejected, the
\* last two, which had to wait for their slots, resolved.
C29_Witness ==
  /\ \A id \in 1..MaxTasks : tasks[id].state = "done"
  /\ MaxTasks >= 4
  /\ tasks[1].promise = "rejected" /\ tasks[2].promise = "rejected"
  /\ tasks[3].promise = "resolved" /\ tasks[4].promise = "resolved"
  /\ active = 0

(***************************************************************************)
(* C30  At most one scheduler cycle executes at any time: a runCycle       *)
(* invoked by the interval timer or by triggerCycle while a cycle is in    *)
(* progress returns without refreshing feeds or fetching content, and      *)
(* isRunning is false again after every cycle ends, whether the cycle      *)
(* completed or threw, so a later tick can always start a new cycle.       *)
(***************************************************************************)
\* The invocations of runCycle whose body is in progress.
InProgress == DOMAIN cycles

OneCycle ==
  /\ Cardinality(InProgress) <= 1
  /\ isRunning <=> InProgress # {}

CycleStep ==
  /\ (invocations' = invocations + 1 /\ InProgress # {}) =>
       /\ cycles' = cycles
       /\ isRunning' = isRunning
       /\ lastCall'.did = "skipped"
  /\ (invocations' = invocations + 1 /\ InProgress = {}) =>
       /\ cycles' = (invocations + 1) :> "refreshing"
       /\ isRunning'
       /\ lastCall'.did = "started"
  /\ (\E id \in InProgress : id \notin DOMAIN cycles') =>
       /\ ~isRunning'
       /\ DOMAIN cycles' = {}
       /\ lastEnd' \in {"completed", "threw"}

C30_OneCycleAtATime == []OneCycle /\ [][CycleStep]_vars

\* A cycle has thrown, a later one has started, and the timer's call of
\* runCycle during it has returned at once.
C30_Witness ==
  /\ isRunning
  /\ lastEnd = "threw"
  /\ lastCall = [by |-> "timer", did |-> "skipped"]
  /\ \E id \in InProgress : id > 1

=============================================================================
